---- MODULE Spec2Model ----
(***************************************************************************)
(* Verification model of the kepler block validation core                  *)
(* (core/src/core/block.rs and its asset / commitment collaborators).      *)
(*                                                                         *)
(* Curve points are modelled in the free abelian group over independent    *)
(* generators: a commitment is the vector <<r, v, a1, a2>> of its          *)
(* coefficients on the blinding generator G, the native value generator H  *)
(* and two issued-asset generators.  <<0,0,0,0>> is the point at infinity. *)
(***************************************************************************)
EXTENDS Integers, Sequences, FiniteSets, TLC

VARIABLES
    prev,       \* header of the chain tip the next block is built on
    block,      \* the block under consideration (header + body)
    orig,       \* the block the last transforming operation was applied to
    op,         \* name of the last operation that produced `block`
    res,        \* results of the validation entry points on `block`, or NoRes
    resOrig,    \* results of the validation entry points on `orig`, or NoRes
    tampered,   \* number of field mutations applied to `block` since it was built
    wire,       \* serialized header/block on the wire (sequence of fields)
    sent,       \* the header/block value that was serialized into `wire`
    now,        \* wall clock (DateTime) of the reading node
    rd,         \* outcome of the last read of `wire`, or NoRes
    compact,    \* the compact block last made from `block`, or NoRes
    picked,     \* the transactions handed to the last build and the last hydration
    ledger,     \* what the chain holds beside its tip: the offsets and the mint
                \* overages of the accepted blocks and the leaves of the issue MMR
    secp_lock,  \* thread holding the lock of the static secp instance, or "free"
    zero_once,  \* the Once of the lazy static ZERO_OVERAGE_COMMITMENT
    verifier_cache, \* the range proofs and kernel signatures the shared cache holds
    threads     \* the call each thread is in and the instruction it is at

\* the state shared by the threads of the process
concVars == <<secp_lock, zero_once, verifier_cache, threads>>

vars == <<prev, block, orig, op, res, resOrig, tampered, wire, sent, now, rd, compact,
          picked, ledger, secp_lock, zero_once, verifier_cache, threads>>

----------------------------------------------------------------------------
(* Bounds of the model                                                     *)

MaxHeight == 2        \* chain heights explored above the default header
MaxTamper == 2        \* field mutations applied to one block
MaxTxs == 2           \* transactions aggregated into one block
MaxCalls == 3         \* calls the threads make into the block module

----------------------------------------------------------------------------
(* Results and errors                                                      *)

Ok(v) == [ok |-> TRUE, val |-> v]
Err(path, arg) == [ok |-> FALSE, err |-> [path |-> path, arg |-> arg]]
NoRes == [none |-> TRUE]
Unit == <<>>

\* impl From<transaction::Error> for Error
FromTransaction(r) == Err(<<"Transaction">> \o r.err.path, r.err.arg)
\* impl From<committed::Error> for Error
FromCommitted(r) == Err(<<"Committed">> \o r.err.path, r.err.arg)
\* impl From<secp::Error> for Error
FromSecp(r) == Err(<<"Secp">> \o r.err.path, r.err.arg)

----------------------------------------------------------------------------
(* Commitment algebra (util::secp)                                         *)

Infinity == <<0, 0, 0, 0>>
VAdd(a, b) == <<a[1] + b[1], a[2] + b[2], a[3] + b[3], a[4] + b[4]>>
VNeg(a) == <<0 - a[1], 0 - a[2], 0 - a[3], 0 - a[4]>>

RECURSIVE VSum(_)
VSum(s) == IF s = <<>> THEN Infinity ELSE VAdd(Head(s), VSum(Tail(s)))

\* Asset generators: the native asset (Asset::default(), GENERATOR_H) and
\* two issued assets.
NativeAsset == 2
Assets == {2, 3, 4}

\* secp.commit(value, blind) under the generator of `asset`
commit_with_generator(value, blind, asset) ==
    [i \in 1..4 |-> IF i = 1 THEN blind ELSE IF i = asset THEN value ELSE 0]

ToTuple(f) == <<f[1], f[2], f[3], f[4]>>

commit(value, blind) == ToTuple(commit_with_generator(value, blind, NativeAsset))
commit_value(value) == commit(value, 0)
commit_value_with_generator(value, asset) ==
    ToTuple(commit_with_generator(value, 0, asset))

\* secp.commit_sum(positive, negative): the library reports
\* IncorrectCommitSum when the sum is the point at infinity.
commit_sum(positive, negative) ==
    LET s == VAdd(VSum(positive), VNeg(VSum(negative)))
    IN  IF s = Infinity THEN Err(<<"IncorrectCommitSum">>, 0) ELSE Ok(s)

\* The "zero" overage when no asset had been issued.
ZERO_OVERAGE_COMMITMENT == commit_value_with_generator(0, NativeAsset)

----------------------------------------------------------------------------
(* Hash order of body items.  Inputs, outputs, kernels and asset actions   *)
(* are kept sorted by their hash; the hash is modelled by a scrambling key *)
(* with a lexicographic tie-break, so the order is total and unrelated to  *)
(* insertion order.                                                        *)

Abs(x) == IF x < 0 THEN 0 - x ELSE x
Scramble(c) == (Abs(c[1]) * 7 + Abs(c[2]) * 3 + Abs(c[3]) * 5 + Abs(c[4]) * 11) % 13

FeatureIdx(f) == CASE f = "Plain" -> 0 [] f = "Coinbase" -> 1 [] OTHER -> 2

RECURSIVE LexLess(_, _)
LexLess(a, b) ==
    IF a = <<>> THEN b # <<>>
    ELSE IF b = <<>> THEN FALSE
    ELSE IF Head(a) # Head(b) THEN Head(a) < Head(b)
    ELSE LexLess(Tail(a), Tail(b))

\* hash of an input / output (the range proof is not part of the hash)
OutputKey(o) == <<Scramble(o.commit), FeatureIdx(o.features)>> \o o.commit
\* hash of a kernel
KernelKey(k) ==
    <<Scramble(k.excess), FeatureIdx(k.features), k.fee, k.lock_height>>
        \o k.excess \o k.excess_sig.key
\* hash of an asset action
AssetKey(a) == <<a.asset, a.amount, a.sig.key>>

\* the hash key of any body item
ItemKey(x) ==
    IF "excess" \in DOMAIN x THEN KernelKey(x)
    ELSE IF "kind" \in DOMAIN x THEN AssetKey(x)
    ELSE OutputKey(x)

RECURSIVE Insert(_, _)
Insert(x, s) ==
    IF s = <<>> THEN <<x>>
    ELSE IF LexLess(ItemKey(x), ItemKey(Head(s))) THEN <<x>> \o s
    ELSE <<Head(s)>> \o Insert(x, Tail(s))

\* Vec::sort_unstable on the hash order
RECURSIVE Sort(_)
Sort(s) == IF s = <<>> THEN <<>> ELSE Insert(Head(s), Sort(Tail(s)))

IsSorted(s) == \A i \in 1..(Len(s) - 1) : LexLess(ItemKey(s[i]), ItemKey(s[i + 1]))

Range(s) == {s[i] : i \in DOMAIN s}
RECURSIVE SelectSeqBy(_, _)
SelectSeqBy(s, keep) ==
    IF s = <<>> THEN <<>>
    ELSE IF Head(s) \in keep THEN <<Head(s)>> \o SelectSeqBy(Tail(s), keep)
    ELSE SelectSeqBy(Tail(s), keep)

MapCommit(s) == [i \in DOMAIN s |-> s[i].commit]
MapExcess(s) == [i \in DOMAIN s |-> s[i].excess]

RECURSIVE SumInts(_)
SumInts(q) == IF q = <<>> THEN 0 ELSE Head(q) + SumInts(Tail(q))

RECURSIVE SumFees(_)
SumFees(ks) == IF ks = <<>> THEN 0 ELSE Head(ks).fee + SumFees(Tail(ks))

----------------------------------------------------------------------------
(* Signatures.  A signature records the public key of the secret that made *)
(* it and the message that was signed; verification compares both.         *)

Sign(key, msg) == [key |-> key, msg |-> msg]
Verify(msg, sig, pk) == sig.key = pk /\ sig.msg = msg

----------------------------------------------------------------------------
(* Asset actions (core/src/core/issued_asset.rs)                           *)

IssuedAsset_new(supply, owner, mintable, asset) ==
    [supply |-> supply, owner |-> owner, mintable |-> mintable, asset |-> asset]

\* the payload an action's signature covers (bincode of the record / amount)
AssetAction_payload(a) ==
    IF a.kind = "New"
    THEN <<"issued", a.issued.supply, a.issued.owner, a.issued.mintable, a.issued.asset>>
    ELSE <<"u64", a.amount>>

\* valid that refuses every withdrawal
AssetAction_valid_no_withdraw(a, pk) ==
    a.kind # "Withdraw" /\ Verify(AssetAction_payload(a), a.sig, pk)

AssetAction_valid(a, pk) == Verify(AssetAction_payload(a), a.sig, pk)

AssetAction_is_new(a) == a.kind = "New"

AssetAction_validate_new(a) == AssetAction_valid(a, a.issued.owner)

\* validate that checks only who signed a New action, not what was signed
AssetAction_validate_signer(a) ==
    IF AssetAction_is_new(a) THEN a.sig.key = a.issued.owner ELSE TRUE

AssetAction_validate(a) ==
    IF AssetAction_is_new(a) THEN AssetAction_validate_new(a) ELSE TRUE

AssetAction_amount(a) == IF a.kind = "New" THEN a.issued.supply ELSE a.amount

----------------------------------------------------------------------------
(* Consensus parameters (crate::consensus, crate::global)                  *)

BLOCK_TIME_SEC == 60
REWARD == 60
BLOCK_INPUT_WEIGHT == 1
BLOCK_OUTPUT_WEIGHT == 21
BLOCK_KERNEL_WEIGHT == 3
\* global::max_block_weight() of the test chain type, scaled to the model:
\* a body of four outputs and three kernels is too heavy
MAX_BLOCK_WEIGHT == 90
\* height of the first hard fork
HARD_FORK_HEIGHT == 2
\* edge bits of the secondary proof of work, smallest primary edge bits, and
\* the number of nonces of a proof
SECOND_POW_EDGE_BITS == 29
MIN_EDGE_BITS == 31
PROOFSIZE == 2

\* consensus::reward(height, fees)
reward(height, fees) == REWARD + fees

\* consensus::header_version(height)
header_version(height) == IF height < HARD_FORK_HEIGHT THEN 1 ELSE 2

\* consensus::valid_header_version(height, version)
valid_header_version(height, version) == version = header_version(height)

----------------------------------------------------------------------------
(* Transaction bodies (crate::core::transaction, crate::core::committed)   *)

TransactionBody_empty == [inputs |-> <<>>, outputs |-> <<>>, kernels |-> <<>>, assets |-> <<>>]

\* TransactionBody::init(inputs, outputs, kernels, assets, verify_sorted)
TransactionBody_init(inputs, outputs, kernels, assets, verify_sorted) ==
    IF verify_sorted
    THEN IF IsSorted(inputs) /\ IsSorted(outputs) /\ IsSorted(kernels) /\ IsSorted(assets)
         THEN Ok([inputs |-> inputs, outputs |-> outputs,
                  kernels |-> kernels, assets |-> assets])
         ELSE Err(<<"Serialization", "SortError">>, 0)
    ELSE Ok([inputs |-> Sort(inputs), outputs |-> Sort(outputs),
             kernels |-> Sort(kernels), assets |-> Sort(assets)])

\* transaction::cut_through(&mut inputs, &mut outputs): drop every output
\* spent by an input of the same body, and the input spending it, matched
\* by commitment; the remaining items keep their relative order.
transaction_cut_through(inputs, outputs) ==
    LET inC == {inputs[i].commit : i \in DOMAIN inputs}
        outC == {outputs[i].commit : i \in DOMAIN outputs}
    IN  Ok([inputs |-> SelectSeqBy(inputs, {x \in Range(inputs) : x.commit \notin outC}),
            outputs |-> SelectSeqBy(outputs, {x \in Range(outputs) : x.commit \notin inC})])

\* TransactionBody::fee
TransactionBody_fee(body) == SumFees(body.kernels)

\* body weight as a block
TransactionBody_weight(body) ==
    Len(body.inputs) * BLOCK_INPUT_WEIGHT
    + Len(body.outputs) * BLOCK_OUTPUT_WEIGHT
    + Len(body.kernels) * BLOCK_KERNEL_WEIGHT

\* TransactionBody::verify_cut_through: no input spends an output of the body
TransactionBody_verify_cut_through(body) ==
    IF \E i \in DOMAIN body.inputs, j \in DOMAIN body.outputs :
            body.inputs[i].commit = body.outputs[j].commit
    THEN Err(<<"CutThrough">>, 0)
    ELSE Ok(Unit)

\* TransactionBody::validate_read(Weighting::AsBlock): structural checks only
TransactionBody_validate_read(body) ==
    IF TransactionBody_weight(body) > MAX_BLOCK_WEIGHT
    THEN Err(<<"TooHeavy">>, 0)
    ELSE TransactionBody_verify_cut_through(body)

\* range proof of an output: valid for the commitment it was made for
Output_verify_proof(o) == o.proof = o.commit

\* the message a kernel signature covers
Kernel_msg_to_sign(k) == <<FeatureIdx(k.features), k.fee, k.lock_height>>

\* TxKernel::verify: signature of the excess key over the kernel message
Kernel_verify(k) == Verify(Kernel_msg_to_sign(k), k.excess_sig, k.excess)

\* TransactionBody::validate(Weighting::AsBlock, verifier): read validation,
\* then range proofs, kernel signatures and asset action signatures
TransactionBody_validate(body) ==
    LET r == TransactionBody_validate_read(body)
    IN  IF ~r.ok THEN r
        ELSE IF \E i \in DOMAIN body.outputs : ~Output_verify_proof(body.outputs[i])
        THEN Err(<<"Secp", "InvalidRangeProof">>, 0)
        ELSE IF \E i \in DOMAIN body.kernels : ~Kernel_verify(body.kernels[i])
        THEN Err(<<"IncorrectSignature">>, 0)
        ELSE IF \E i \in DOMAIN body.assets : ~AssetAction_validate(body.assets[i])
        THEN Err(<<"IncorrectSignature">>, 0)
        ELSE Ok(Unit)

\* Option<Commitment>
None == [some |-> FALSE]
Some(c) == [some |-> TRUE, val |-> c]

\* commitment to an action's supply delta under the asset's own generator
AssetAction_overage(a) == commit_value_with_generator(AssetAction_amount(a), a.asset)

\* TransactionBody::mint_overage: None without asset actions, otherwise the
\* sum of the issuance commitments (withdrawals negative)
TransactionBody_mint_overage(body) ==
    IF body.assets = <<>> THEN Ok(None)
    ELSE LET pos == SelectSeq(body.assets, LAMBDA a : a.kind # "Withdraw")
             neg == SelectSeq(body.assets, LAMBDA a : a.kind = "Withdraw")
             r == commit_sum([i \in DOMAIN pos |-> AssetAction_overage(pos[i])],
                             [i \in DOMAIN neg |-> AssetAction_overage(neg[i])])
         IN  IF r.ok THEN Ok(Some(r.val)) ELSE Err(<<"Secp">> \o r.err.path, 0)

\* committed::sum_kernel_offsets(positive, negative)
sum_kernel_offsets(positive, negative) ==
    Ok(SumInts(positive) - SumInts(negative))

\* Committed::verify_kernel_sums(overage, mint_overage, kernel_offset):
\* the overage is added on the input side when negative and on the output
\* side when positive, the mint overage on the input side; the kernel sum
\* is extended by the commitment to the offset.
verify_kernel_sums(body, overage, mint_overage, kernel_offset) ==
    LET over == IF overage = 0 THEN <<>> ELSE <<commit_value(Abs(overage))>>
        mint == IF mint_overage.some THEN <<mint_overage.val>> ELSE <<>>
        ins == MapCommit(body.inputs) \o (IF overage < 0 THEN over ELSE <<>>) \o mint
        outs == MapCommit(body.outputs) \o (IF overage > 0 THEN over ELSE <<>>)
        utxo_sum == commit_sum(outs, ins)
        kernel_sum == commit_sum(MapExcess(body.kernels), <<>>)
        off == IF kernel_offset = 0 THEN <<>> ELSE <<commit(0, kernel_offset)>>
    IN  IF ~utxo_sum.ok THEN Err(<<"Secp">> \o utxo_sum.err.path, 0)
        ELSE IF ~kernel_sum.ok THEN Err(<<"Secp">> \o kernel_sum.err.path, 0)
        ELSE LET plus == commit_sum(<<kernel_sum.val>> \o off, <<>>)
             IN  IF ~plus.ok THEN Err(<<"Secp">> \o plus.err.path, 0)
                 ELSE IF utxo_sum.val # plus.val THEN Err(<<"KernelSumMismatch">>, 0)
                 ELSE Ok(<<utxo_sum.val, kernel_sum.val>>)

----------------------------------------------------------------------------
(* Block headers (core/src/core/block.rs)                                  *)

\* DateTime<Utc>: whole seconds and the sub-second part
DateTime(secs, nanos) == [secs |-> secs, nanos |-> nanos]
\* NaiveDateTime::from_timestamp(secs, 0)
from_timestamp(secs) == DateTime(secs, 0)
\* DateTime::timestamp(): the whole seconds
timestamp_of(dt) == dt.secs
\* dt + Duration::seconds(n)
plus_seconds(dt, n) == DateTime(dt.secs + n, dt.nanos)
\* a > b on DateTime
DateTime_gt(a, b) == a.secs > b.secs \/ (a.secs = b.secs /\ a.nanos > b.nanos)

\* chrono MIN_DATE / MAX_DATE at midnight, as timestamps
MIN_DATE_TS == -100000
MAX_DATE_TS == 100000

Hash(bytes) == [h |-> bytes]
ZERO_HASH == Hash(<<>>)

Proof(edge_bits, nonces) == [edge_bits |-> edge_bits, nonces |-> nonces]

\* ProofOfWork::default()
ProofOfWork_default ==
    [total_difficulty |-> 1, secondary_scaling |-> 1, nonce |-> 0,
     proof |-> Proof(MIN_EDGE_BITS, [i \in 1..PROOFSIZE |-> 0])]

\* Proof::write
Proof_write(p) == <<p.edge_bits, Len(p.nonces)>> \o p.nonces
\* ProofOfWork::write_pre_pow
ProofOfWork_write_pre_pow(pow) == <<pow.total_difficulty, pow.secondary_scaling>>
\* ProofOfWork::write
ProofOfWork_write(pow) ==
    ProofOfWork_write_pre_pow(pow) \o <<pow.nonce>> \o Proof_write(pow.proof)

\* ProofOfWork::is_primary / is_secondary
ProofOfWork_is_primary(pow) ==
    pow.proof.edge_bits # SECOND_POW_EDGE_BITS /\ pow.proof.edge_bits >= MIN_EDGE_BITS
ProofOfWork_is_secondary(pow) == pow.proof.edge_bits = SECOND_POW_EDGE_BITS

\* pow::verify_size(header)
verify_size(header) ==
    IF Len(header.pow.proof.nonces) = PROOFSIZE THEN Ok(Unit)
    ELSE Err(<<"pow", "WrongProofSize">>, 0)

\* impl Default for BlockHeader
BlockHeader_default ==
    [version |-> 1,
     height |-> 0,
     timestamp |-> from_timestamp(0),
     prev_hash |-> ZERO_HASH,
     prev_root |-> ZERO_HASH,
     output_root |-> ZERO_HASH,
     range_proof_root |-> ZERO_HASH,
     kernel_root |-> ZERO_HASH,
     issue_root |-> ZERO_HASH,
     total_kernel_offset |-> 0,
     total_issue_overage |-> ZERO_OVERAGE_COMMITMENT,
     output_mmr_size |-> 0,
     kernel_mmr_size |-> 0,
     issue_mmr_size |-> 0,
     pow |-> ProofOfWork_default]

\* BlockHeader::write_pre_pow
BlockHeader_write_pre_pow(h) ==
    <<h.version,
      h.height,
      timestamp_of(h.timestamp),
      h.prev_hash,
      h.prev_root,
      h.output_root,
      h.range_proof_root,
      h.kernel_root,
      h.issue_root,
      h.total_kernel_offset,
      h.output_mmr_size,
      h.kernel_mmr_size,
      h.issue_mmr_size,
      h.total_issue_overage>>

\* header serialization that writes the pre-pow fields in every mode
BlockHeader_write_all(h, mode) ==
    BlockHeader_write_pre_pow(h) \o ProofOfWork_write(h.pow)

\* impl Writeable for BlockHeader; mode is "Full" or "Hash"
BlockHeader_write(h, mode) ==
    (IF mode # "Hash" THEN BlockHeader_write_pre_pow(h) ELSE <<>>)
        \o ProofOfWork_write(h.pow)

\* ProofOfWork::read: a reader is the sequence of the fields still to read
ProofOfWork_read(reader) ==
    IF Len(reader) < 5 THEN Err(<<"IOErr">>, 0)
    ELSE IF Len(reader) < 5 + reader[5] THEN Err(<<"IOErr">>, 0)
    ELSE Ok([val |-> [total_difficulty |-> reader[1],
                      secondary_scaling |-> reader[2],
                      nonce |-> reader[3],
                      proof |-> Proof(reader[4], SubSeq(reader, 6, 5 + reader[5]))],
             reader |-> SubSeq(reader, 6 + reader[5], Len(reader))])

\* read_block_header with the two MMR sizes read in the other order
read_block_header_swapped(reader) ==
    IF Len(reader) < 14 THEN Err(<<"IOErr">>, 0)
    ELSE LET timestamp == reader[3]
             pow == ProofOfWork_read(SubSeq(reader, 15, Len(reader)))
         IN  IF ~pow.ok THEN pow
             ELSE IF timestamp > MAX_DATE_TS \/ timestamp < MIN_DATE_TS
             THEN Err(<<"CorruptedData">>, 0)
             ELSE Ok([val |-> [version |-> reader[1],
                               height |-> reader[2],
                               timestamp |-> from_timestamp(timestamp),
                               prev_hash |-> reader[4],
                               prev_root |-> reader[5],
                               output_root |-> reader[6],
                               range_proof_root |-> reader[7],
                               kernel_root |-> reader[8],
                               issue_root |-> reader[9],
                               total_kernel_offset |-> reader[10],
                               output_mmr_size |-> reader[12],
                               kernel_mmr_size |-> reader[11],
                               issue_mmr_size |-> reader[13],
                               total_issue_overage |-> reader[14],
                               pow |-> pow.val.val],
                      reader |-> pow.val.reader])

\* read_block_header
read_block_header(reader) ==
    IF Len(reader) < 14 THEN Err(<<"IOErr">>, 0)
    ELSE LET version == reader[1]
             height == reader[2]
             timestamp == reader[3]
             prev_hash == reader[4]
             prev_root == reader[5]
             output_root == reader[6]
             range_proof_root == reader[7]
             kernel_root == reader[8]
             issue_root == reader[9]
             total_kernel_offset == reader[10]
             output_mmr_size == reader[11]
             kernel_mmr_size == reader[12]
             issue_mmr_size == reader[13]
             total_issue_overage == reader[14]
             pow == ProofOfWork_read(SubSeq(reader, 15, Len(reader)))
         IN  IF ~pow.ok THEN pow
             ELSE IF timestamp > MAX_DATE_TS \/ timestamp < MIN_DATE_TS
             THEN Err(<<"CorruptedData">>, 0)
             ELSE Ok([val |-> [version |-> version,
                               height |-> height,
                               timestamp |-> from_timestamp(timestamp),
                               prev_hash |-> prev_hash,
                               prev_root |-> prev_root,
                               output_root |-> output_root,
                               range_proof_root |-> range_proof_root,
                               kernel_root |-> kernel_root,
                               issue_root |-> issue_root,
                               total_kernel_offset |-> total_kernel_offset,
                               output_mmr_size |-> output_mmr_size,
                               kernel_mmr_size |-> kernel_mmr_size,
                               issue_mmr_size |-> issue_mmr_size,
                               total_issue_overage |-> total_issue_overage,
                               pow |-> pow.val.val],
                      reader |-> pow.val.reader])

\* impl Readable for BlockHeader
BlockHeader_read(reader) == read_block_header(reader)

\* the untrusted read with the version failure reported as corrupted data
UntrustedBlockHeader_read_corrupted(reader, nowv) ==
    LET r == read_block_header(reader)
        header == r.val.val
    IN  IF ~r.ok THEN r
        ELSE IF DateTime_gt(header.timestamp, plus_seconds(nowv, 12 * BLOCK_TIME_SEC))
        THEN Err(<<"CorruptedData">>, 0)
        ELSE IF ~valid_header_version(header.height, header.version)
        THEN Err(<<"CorruptedData">>, 0)
        ELSE IF ~ProofOfWork_is_primary(header.pow) /\ ~ProofOfWork_is_secondary(header.pow)
        THEN Err(<<"CorruptedData">>, 0)
        ELSE IF ~verify_size(header).ok THEN Err(<<"CorruptedData">>, 0)
        ELSE r

\* the untrusted read that refuses a timestamp at the limit
UntrustedBlockHeader_read_strict(reader, nowv) ==
    LET r == read_block_header(reader)
        header == r.val.val
    IN  IF ~r.ok THEN r
        ELSE IF ~DateTime_gt(plus_seconds(nowv, 12 * BLOCK_TIME_SEC), header.timestamp)
        THEN Err(<<"CorruptedData">>, 0)
        ELSE IF ~valid_header_version(header.height, header.version)
        THEN Err(<<"InvalidBlockVersion">>, 0)
        ELSE IF ~ProofOfWork_is_primary(header.pow) /\ ~ProofOfWork_is_secondary(header.pow)
        THEN Err(<<"CorruptedData">>, 0)
        ELSE IF ~verify_size(header).ok THEN Err(<<"CorruptedData">>, 0)
        ELSE r

\* impl Readable for UntrustedBlockHeader; nowv is Utc::now()
UntrustedBlockHeader_read(reader, nowv) ==
    LET r == read_block_header(reader)
        header == r.val.val
    IN  IF ~r.ok THEN r
        ELSE IF DateTime_gt(header.timestamp, plus_seconds(nowv, 12 * BLOCK_TIME_SEC))
        THEN Err(<<"CorruptedData">>, 0)
        ELSE IF ~valid_header_version(header.height, header.version)
        THEN Err(<<"InvalidBlockVersion">>, 0)
        ELSE IF ~ProofOfWork_is_primary(header.pow) /\ ~ProofOfWork_is_secondary(header.pow)
        THEN Err(<<"CorruptedData">>, 0)
        ELSE IF ~verify_size(header).ok THEN Err(<<"CorruptedData">>, 0)
        ELSE r

\* Hashed::hash of a header: the hash of its Hash-mode serialization
BlockHeader_hash(h) == Hash(BlockHeader_write(h, "Hash"))

\* BlockHeader::overage
BlockHeader_overage(h) == 0 - reward(h.height, 0)

\* add_issue_overage that takes the new overage for the total
BlockHeader_add_issue_overage_replace(h, issue_overage) ==
    Ok(issue_overage)

\* add_issue_overage that leaves the baseline in place
BlockHeader_add_issue_overage_baseline(h, issue_overage) ==
    IF h.total_issue_overage = ZERO_OVERAGE_COMMITMENT
    THEN Ok(h.total_issue_overage)
    ELSE LET r == commit_sum(<<h.total_issue_overage, issue_overage>>, <<>>)
         IN  IF r.ok THEN r ELSE FromSecp(r)

\* BlockHeader::add_issue_overage
BlockHeader_add_issue_overage(h, issue_overage) ==
    IF h.total_issue_overage = ZERO_OVERAGE_COMMITMENT
    THEN Ok(issue_overage)
    ELSE LET r == commit_sum(<<h.total_issue_overage, issue_overage>>, <<>>)
         IN  IF r.ok THEN r ELSE FromSecp(r)

----------------------------------------------------------------------------
(* Transactions and compact blocks                                         *)

RECURSIVE ConcatField(_, _)
ConcatField(txs, f) ==
    IF txs = <<>> THEN <<>> ELSE Head(txs).body[f] \o ConcatField(Tail(txs), f)

\* transaction::aggregate(txs): one transaction carrying every input,
\* output, kernel and asset action, with the sum of the offsets
transaction_aggregate(txs) ==
    LET body == TransactionBody_init(ConcatField(txs, "inputs"), ConcatField(txs, "outputs"),
                                     ConcatField(txs, "kernels"), ConcatField(txs, "assets"),
                                     FALSE)
        offset == sum_kernel_offsets([i \in DOMAIN txs |-> txs[i].offset], <<>>)
    IN  IF ~body.ok THEN body
        ELSE IF ~offset.ok THEN offset
        ELSE Ok([offset |-> offset.val, body |-> body.val])

\* Transaction::with_output / with_kernel: add the item and keep the order
Transaction_with_output(tx, out) ==
    [tx EXCEPT !.body.outputs = Sort(Append(@, out))]
Transaction_with_kernel(tx, kern) ==
    [tx EXCEPT !.body.kernels = Sort(Append(@, kern))]

\* ShortIdentifiable::short_id(hash, nonce): keyed hash of the kernel
short_id(k, hash, nonce) == <<nonce>> \o hash.h \o KernelKey(k)

RECURSIVE SetToSeq(_)
SetToSeq(S) ==
    IF S = {} THEN <<>>
    ELSE LET x == CHOOSE y \in S : TRUE IN <<x>> \o SetToSeq(S \ {x})

----------------------------------------------------------------------------
(* Blocks (core/src/core/block.rs)                                         *)

\* impl Hashed for Block
Block_hash(b) == BlockHeader_hash(b.header)

\* TransactionBody::write: the four counts, then the items
TransactionBody_write(body) ==
    <<Len(body.inputs), Len(body.outputs), Len(body.kernels), Len(body.assets)>>
        \o body.inputs \o body.outputs \o body.kernels \o body.assets

\* TransactionBody::read: the counts, the items, and a body that must be sorted
TransactionBody_read(reader) ==
    IF Len(reader) < 4 THEN Err(<<"IOErr">>, 0)
    ELSE LET ni == reader[1]
             no == reader[2]
             nk == reader[3]
             na == reader[4]
         IN  IF Len(reader) < 4 + ni + no + nk + na THEN Err(<<"IOErr">>, 0)
             ELSE LET body == TransactionBody_init(
                                 SubSeq(reader, 5, 4 + ni),
                                 SubSeq(reader, 5 + ni, 4 + ni + no),
                                 SubSeq(reader, 5 + ni + no, 4 + ni + no + nk),
                                 SubSeq(reader, 5 + ni + no + nk, 4 + ni + no + nk + na),
                                 TRUE)
                  IN  IF ~body.ok THEN Err(<<"CorruptedData">>, 0)
                      ELSE Ok([val |-> body.val,
                               reader |-> SubSeq(reader, 5 + ni + no + nk + na, Len(reader))])

\* impl Writeable for Block
Block_write(b, mode) ==
    BlockHeader_write(b.header, mode)
        \o (IF mode # "Hash" THEN TransactionBody_write(b.body) ELSE <<>>)

\* impl Readable for Block
Block_read(reader) ==
    LET header == BlockHeader_read(reader)
    IN  IF ~header.ok THEN header
        ELSE LET body == TransactionBody_read(header.val.reader)
             IN  IF ~body.ok THEN body
                 ELSE Ok([val |-> [header |-> header.val.val, body |-> body.val.val],
                          reader |-> body.val.reader])

\* impl Readable for UntrustedBlock; nowv is Utc::now()
UntrustedBlock_read(reader, nowv) ==
    LET header == UntrustedBlockHeader_read(reader, nowv)
    IN  IF ~header.ok THEN header
        ELSE LET body == TransactionBody_read(header.val.reader)
             IN  IF ~body.ok THEN body
                 ELSE IF ~TransactionBody_validate_read(body.val.val).ok
                 THEN Err(<<"CorruptedData">>, 0)
                 ELSE Ok([val |-> [header |-> header.val.val, body |-> body.val.val],
                          reader |-> body.val.reader])

\* Block::with_header
Block_with_header(header) == [header |-> header, body |-> TransactionBody_empty]

\* Block::total_fees
Block_total_fees(b) == TransactionBody_fee(b.body)

\* Block::mint_overage
Block_mint_overage(b) ==
    LET r == TransactionBody_mint_overage(b.body)
    IN  IF r.ok THEN r ELSE FromTransaction(r)

\* cut_through that rebuilds the body from the cut inputs and the outputs
\* as they were
Block_cut_through_outputs(b) ==
    LET ct == transaction_cut_through(b.body.inputs, b.body.outputs)
    IN  IF ~ct.ok THEN FromTransaction(ct)
        ELSE LET body == TransactionBody_init(ct.val.inputs, b.body.outputs,
                                              b.body.kernels, b.body.assets, FALSE)
             IN  IF ~body.ok THEN FromTransaction(body)
                 ELSE Ok([header |-> b.header, body |-> body.val])

\* Block::cut_through
Block_cut_through(b) ==
    LET ct == transaction_cut_through(b.body.inputs, b.body.outputs)
    IN  IF ~ct.ok THEN FromTransaction(ct)
        ELSE LET body == TransactionBody_init(ct.val.inputs, ct.val.outputs,
                                              b.body.kernels, b.body.assets, FALSE)
             IN  IF ~body.ok THEN FromTransaction(body)
                 ELSE Ok([header |-> b.header, body |-> body.val])

\* verify_kernel_lock_heights that also refuses a lock at the block's height
RECURSIVE first_lock_violation_at(_, _)
first_lock_violation_at(kernels, height) ==
    IF kernels = <<>> THEN Ok(Unit)
    ELSE IF Head(kernels).features = "HeightLocked" /\ Head(kernels).lock_height >= height
    THEN Err(<<"KernelLockHeight">>, Head(kernels).lock_height)
    ELSE first_lock_violation_at(Tail(kernels), height)

\* Block::verify_kernel_lock_heights
RECURSIVE first_lock_violation(_, _)
first_lock_violation(kernels, height) ==
    IF kernels = <<>> THEN Ok(Unit)
    ELSE IF Head(kernels).features = "HeightLocked" /\ Head(kernels).lock_height > height
    THEN Err(<<"KernelLockHeight">>, Head(kernels).lock_height)
    ELSE first_lock_violation(Tail(kernels), height)

Block_verify_kernel_lock_heights(b) == first_lock_violation(b.body.kernels, b.header.height)

\* Block::validate_read
Block_validate_read(b) ==
    LET r == TransactionBody_validate_read(b.body)
    IN  IF ~r.ok THEN FromTransaction(r)
        ELSE Block_verify_kernel_lock_heights(b)

\* block_kernel_offset that takes the header's total for the block's offset
Block_block_kernel_offset_total(b, prev_kernel_offset) ==
    Ok(b.header.total_kernel_offset)

\* Block::block_kernel_offset
Block_block_kernel_offset(b, prev_kernel_offset) ==
    IF b.header.total_kernel_offset = prev_kernel_offset
    THEN Ok(0)
    ELSE LET r == sum_kernel_offsets(<<b.header.total_kernel_offset>>, <<prev_kernel_offset>>)
         IN  IF r.ok THEN r ELSE FromCommitted(r)

\* verify_coinbase that takes the reward of the height without the fees
Block_verify_coinbase_no_fees(b) ==
    LET cb_outs == SelectSeq(b.body.outputs, LAMBDA o : o.features = "Coinbase")
        cb_kerns == SelectSeq(b.body.kernels, LAMBDA k : k.features = "Coinbase")
        over_commit == commit_value(reward(b.header.height, 0))
        out_adjust_sum == commit_sum(MapCommit(cb_outs), <<over_commit>>)
        kerns_sum == commit_sum(MapExcess(cb_kerns), <<>>)
    IN  IF ~out_adjust_sum.ok THEN FromSecp(out_adjust_sum)
        ELSE IF ~kerns_sum.ok THEN FromSecp(kerns_sum)
        ELSE IF kerns_sum.val # out_adjust_sum.val THEN Err(<<"CoinbaseSumMismatch">>, 0)
        ELSE Ok(Unit)

\* verify_coinbase that sums every output, whatever its features
Block_verify_coinbase_all_outputs(b) ==
    LET cb_outs == b.body.outputs
        cb_kerns == SelectSeq(b.body.kernels, LAMBDA k : k.features = "Coinbase")
        over_commit == commit_value(reward(b.header.height, Block_total_fees(b)))
        out_adjust_sum == commit_sum(MapCommit(cb_outs), <<over_commit>>)
        kerns_sum == commit_sum(MapExcess(cb_kerns), <<>>)
    IN  IF ~out_adjust_sum.ok THEN FromSecp(out_adjust_sum)
        ELSE IF ~kerns_sum.ok THEN FromSecp(kerns_sum)
        ELSE IF kerns_sum.val # out_adjust_sum.val THEN Err(<<"CoinbaseSumMismatch">>, 0)
        ELSE Ok(Unit)

\* Block::verify_coinbase
Block_verify_coinbase(b) ==
    LET cb_outs == SelectSeq(b.body.outputs, LAMBDA o : o.features = "Coinbase")
        cb_kerns == SelectSeq(b.body.kernels, LAMBDA k : k.features = "Coinbase")
        over_commit == commit_value(reward(b.header.height, Block_total_fees(b)))
        out_adjust_sum == commit_sum(MapCommit(cb_outs), <<over_commit>>)
        kerns_sum == commit_sum(MapExcess(cb_kerns), <<>>)
    IN  IF ~out_adjust_sum.ok THEN FromSecp(out_adjust_sum)
        ELSE IF ~kerns_sum.ok THEN FromSecp(kerns_sum)
        ELSE IF kerns_sum.val # out_adjust_sum.val THEN Err(<<"CoinbaseSumMismatch">>, 0)
        ELSE Ok(Unit)

\* Committed::verify_kernel_sums on a block
Block_verify_kernel_sums(b, overage, mint_overage, kernel_offset) ==
    verify_kernel_sums(b.body, overage, mint_overage, kernel_offset)

\* validate that checks the coinbase sum before the body
Block_validate_coinbase_first(b, prev_kernel_offset) ==
    LET body_ok == TransactionBody_validate(b.body)
        locks == Block_verify_kernel_lock_heights(b)
        coinbase == Block_verify_coinbase(b)
        mint_overage == Block_mint_overage(b)
        offset == Block_block_kernel_offset(b, prev_kernel_offset)
    IN  IF ~coinbase.ok THEN coinbase
        ELSE IF ~body_ok.ok THEN FromTransaction(body_ok)
        ELSE IF ~locks.ok THEN locks
        ELSE IF ~mint_overage.ok THEN mint_overage
        ELSE IF ~offset.ok THEN offset
        ELSE LET sums == Block_verify_kernel_sums(b, BlockHeader_overage(b.header),
                                                  mint_overage.val, offset.val)
             IN  IF ~sums.ok THEN FromCommitted(sums)
                 ELSE Ok(sums.val[2])

\* Block::validate
Block_validate(b, prev_kernel_offset) ==
    LET body_ok == TransactionBody_validate(b.body)
        locks == Block_verify_kernel_lock_heights(b)
        coinbase == Block_verify_coinbase(b)
        mint_overage == Block_mint_overage(b)
        offset == Block_block_kernel_offset(b, prev_kernel_offset)
    IN  IF ~body_ok.ok THEN FromTransaction(body_ok)
        ELSE IF ~locks.ok THEN locks
        ELSE IF ~coinbase.ok THEN coinbase
        ELSE IF ~mint_overage.ok THEN mint_overage
        ELSE IF ~offset.ok THEN offset
        ELSE LET sums == Block_verify_kernel_sums(b, BlockHeader_overage(b.header),
                                                  mint_overage.val, offset.val)
             IN  IF ~sums.ok THEN FromCommitted(sums)
                 ELSE Ok(sums.val[2])

\* from_reward that takes the offset of the transactions for the header's total
Block_from_reward_body_own_offset(prevh, txs, reward_out, reward_kern, difficulty, nowv) ==
    LET height == prevh.height + 1
        version == header_version(height)
        timestamp == from_timestamp(timestamp_of(nowv))
        \* the header and the body, once the totals are known
        assemble(agg_tx, total_kernel_offset, total_issue_overage) ==
            IF ~total_kernel_offset.ok THEN FromCommitted(total_kernel_offset)
            ELSE IF ~total_issue_overage.ok THEN total_issue_overage
            ELSE Ok([header |-> [BlockHeader_default EXCEPT
                                    !.version = version,
                                    !.height = height,
                                    !.timestamp = timestamp,
                                    !.prev_hash = BlockHeader_hash(prevh),
                                    !.total_kernel_offset = total_kernel_offset.val,
                                    !.pow = [ProofOfWork_default EXCEPT
                                                !.total_difficulty =
                                                    difficulty + prevh.pow.total_difficulty],
                                    !.total_issue_overage = total_issue_overage.val],
                     body |-> agg_tx.body])
        \* the total issue overage from the mint overage of the body
        issue_overage(mint) ==
            IF ~mint.ok THEN FromTransaction(mint)
            ELSE IF mint.val.some
            THEN BlockHeader_add_issue_overage(prevh, mint.val.val)
            ELSE Ok(prevh.total_issue_overage)
        with_reward(agg_tx) ==
            assemble(agg_tx,
                     sum_kernel_offsets(<<agg_tx.offset>>, <<>>),
                     issue_overage(TransactionBody_mint_overage(agg_tx.body)))
        aggregated(agg) ==
            IF ~agg.ok THEN FromTransaction(agg)
            ELSE with_reward(Transaction_with_kernel(
                                 Transaction_with_output(agg.val, reward_out), reward_kern))
    IN  aggregated(transaction_aggregate(txs))

\* from_reward that carries the tip's total issue overage over
Block_from_reward_body_no_issue(prevh, txs, reward_out, reward_kern, difficulty, nowv) ==
    LET height == prevh.height + 1
        version == header_version(height)
        timestamp == from_timestamp(timestamp_of(nowv))
        \* the header and the body, once the totals are known
        assemble(agg_tx, total_kernel_offset, total_issue_overage) ==
            IF ~total_kernel_offset.ok THEN FromCommitted(total_kernel_offset)
            ELSE IF ~total_issue_overage.ok THEN total_issue_overage
            ELSE Ok([header |-> [BlockHeader_default EXCEPT
                                    !.version = version,
                                    !.height = height,
                                    !.timestamp = timestamp,
                                    !.prev_hash = BlockHeader_hash(prevh),
                                    !.total_kernel_offset = total_kernel_offset.val,
                                    !.pow = [ProofOfWork_default EXCEPT
                                                !.total_difficulty =
                                                    difficulty + prevh.pow.total_difficulty],
                                    !.total_issue_overage = total_issue_overage.val],
                     body |-> agg_tx.body])
        \* the total issue overage from the mint overage of the body
        issue_overage(mint) ==
            IF ~mint.ok THEN FromTransaction(mint)
            ELSE Ok(prevh.total_issue_overage)
        with_reward(agg_tx) ==
            assemble(agg_tx,
                     sum_kernel_offsets(<<agg_tx.offset, prevh.total_kernel_offset>>, <<>>),
                     issue_overage(TransactionBody_mint_overage(agg_tx.body)))
        aggregated(agg) ==
            IF ~agg.ok THEN FromTransaction(agg)
            ELSE with_reward(Transaction_with_kernel(
                                 Transaction_with_output(agg.val, reward_out), reward_kern))
    IN  aggregated(transaction_aggregate(txs))

\* Block::from_reward up to the final cut_through; nowv is Utc::now()
Block_from_reward_body(prevh, txs, reward_out, reward_kern, difficulty, nowv) ==
    LET height == prevh.height + 1
        version == header_version(height)
        timestamp == from_timestamp(timestamp_of(nowv))
        \* the header and the body, once the totals are known
        assemble(agg_tx, total_kernel_offset, total_issue_overage) ==
            IF ~total_kernel_offset.ok THEN FromCommitted(total_kernel_offset)
            ELSE IF ~total_issue_overage.ok THEN total_issue_overage
            ELSE Ok([header |-> [BlockHeader_default EXCEPT
                                    !.version = version,
                                    !.height = height,
                                    !.timestamp = timestamp,
                                    !.prev_hash = BlockHeader_hash(prevh),
                                    !.total_kernel_offset = total_kernel_offset.val,
                                    !.pow = [ProofOfWork_default EXCEPT
                                                !.total_difficulty =
                                                    difficulty + prevh.pow.total_difficulty],
                                    !.total_issue_overage = total_issue_overage.val],
                     body |-> agg_tx.body])
        \* the total issue overage from the mint overage of the body
        issue_overage(mint) ==
            IF ~mint.ok THEN FromTransaction(mint)
            ELSE IF mint.val.some
            THEN BlockHeader_add_issue_overage(prevh, mint.val.val)
            ELSE Ok(prevh.total_issue_overage)
        with_reward(agg_tx) ==
            assemble(agg_tx,
                     sum_kernel_offsets(<<agg_tx.offset, prevh.total_kernel_offset>>, <<>>),
                     issue_overage(TransactionBody_mint_overage(agg_tx.body)))
        aggregated(agg) ==
            IF ~agg.ok THEN FromTransaction(agg)
            ELSE with_reward(Transaction_with_kernel(
                                 Transaction_with_output(agg.val, reward_out), reward_kern))
    IN  aggregated(transaction_aggregate(txs))

\* Block::from_reward
Block_from_reward(prevh, txs, reward_out, reward_kern, difficulty, nowv) ==
    LET finish(b) == IF ~b.ok THEN b ELSE Block_cut_through(b.val)
    IN  finish(Block_from_reward_body(prevh, txs, reward_out, reward_kern, difficulty, nowv))

\* Block::with_reward
Block_with_reward(b, reward_out, reward_kern) ==
    [b EXCEPT !.body.outputs = <<reward_out>>, !.body.kernels = <<reward_kern>>]

\* compaction that also lists the short ID of the coinbase kernels
CompactBlock_from_all_ids(b, nonce) ==
    [header |-> b.header,
     nonce |-> nonce,
     out_full |-> SelectSeq(b.body.outputs, LAMBDA o : o.features = "Coinbase"),
     kern_full |-> SelectSeq(b.body.kernels, LAMBDA k : k.features = "Coinbase"),
     kern_ids |-> [i \in DOMAIN b.body.kernels |->
                      short_id(b.body.kernels[i], BlockHeader_hash(b.header), nonce)]]

\* impl From<Block> for CompactBlock, with the nonce drawn by the caller
CompactBlock_from(b, nonce) ==
    LET kerns == SelectSeq(b.body.kernels, LAMBDA k : k.features # "Coinbase")
    IN  [header |-> b.header,
         nonce |-> nonce,
         out_full |-> SelectSeq(b.body.outputs, LAMBDA o : o.features = "Coinbase"),
         kern_full |-> SelectSeq(b.body.kernels, LAMBDA k : k.features = "Coinbase"),
         kern_ids |-> [i \in DOMAIN kerns |->
                          short_id(kerns[i], BlockHeader_hash(b.header), nonce)]]

\* impl Hashed for CompactBlock
CompactBlock_hash(cb) == BlockHeader_hash(cb.header)

\* hydration that gathers the items in vectors instead of sets
Block_hydrate_from_body_vecs(cb, txs) ==
    LET body == TransactionBody_init(ConcatField(txs, "inputs"),
                                     ConcatField(txs, "outputs") \o cb.out_full,
                                     ConcatField(txs, "kernels") \o cb.kern_full,
                                     ConcatField(txs, "assets"), FALSE)
    IN  IF ~body.ok THEN FromTransaction(body)
        ELSE Ok([header |-> cb.header, body |-> body.val])

\* hydration that leaves out what the compact block carries in full
Block_hydrate_from_body_txs_only(cb, txs) ==
    LET body == TransactionBody_init(SetToSeq(Range(ConcatField(txs, "inputs"))),
                                     SetToSeq(Range(ConcatField(txs, "outputs"))),
                                     SetToSeq(Range(ConcatField(txs, "kernels"))),
                                     SetToSeq(Range(ConcatField(txs, "assets"))), FALSE)
    IN  IF ~body.ok THEN FromTransaction(body)
        ELSE Ok([header |-> cb.header, body |-> body.val])

\* Block::hydrate_from up to the final cut_through
Block_hydrate_from_body(cb, txs) ==
    LET header == cb.header
        all_inputs == Range(ConcatField(txs, "inputs"))
        all_outputs == Range(ConcatField(txs, "outputs")) \cup Range(cb.out_full)
        all_kernels == Range(ConcatField(txs, "kernels")) \cup Range(cb.kern_full)
        all_assets == Range(ConcatField(txs, "assets"))
        body == TransactionBody_init(SetToSeq(all_inputs), SetToSeq(all_outputs),
                                     SetToSeq(all_kernels), SetToSeq(all_assets), FALSE)
    IN  IF ~body.ok THEN FromTransaction(body)
        ELSE Ok([header |-> header, body |-> body.val])

\* hydrate_from that returns the rebuilt body as it is
Block_hydrate_from_uncut(cb, txs) ==
    Block_hydrate_from_body(cb, txs)

\* Block::hydrate_from
Block_hydrate_from(cb, txs) ==
    LET b == Block_hydrate_from_body(cb, txs)
    IN  IF ~b.ok THEN b ELSE Block_cut_through(b.val)

----------------------------------------------------------------------------
(* Transactions offered to the block builder (libtx::build::transaction,   *)
(* libtx::reward::output as the tests use them)                            *)

build_input(value, key, asset) ==
    [features |-> "Plain", commit |-> ToTuple(commit_with_generator(value, key, asset))]

build_output(value, key, asset) ==
    LET c == ToTuple(commit_with_generator(value, key, asset))
    IN  [features |-> "Plain", commit |-> c, proof |-> c]

\* a New action for `asset` signed by `signer`
build_new_action(asset, supply, owner, signer) ==
    LET issued == IssuedAsset_new(supply, owner, FALSE, asset)
        a == [kind |-> "New", asset |-> asset, issued |-> issued, amount |-> supply]
    IN  [kind |-> "New", asset |-> asset, issued |-> issued, amount |-> supply,
         sig |-> Sign(signer, AssetAction_payload(a))]

\* build::transaction: the kernel excess is what balances the transaction
\* once the fee, the minted supply and the offset are accounted for
build_transaction(features, fee, lock_height, ins, outs, assets, offset) ==
    LET mint == [i \in DOMAIN assets |-> AssetAction_overage(assets[i])]
        excess == VAdd(VAdd(VSum(MapCommit(outs)), VNeg(VSum(MapCommit(ins)))),
                       VAdd(VAdd(commit_value(fee), VNeg(VSum(mint))),
                            VNeg(commit(0, offset))))
        k0 == [features |-> features, fee |-> fee, lock_height |-> lock_height,
               excess |-> excess]
        kern == [features |-> features, fee |-> fee, lock_height |-> lock_height,
                 excess |-> excess, excess_sig |-> Sign(excess, Kernel_msg_to_sign(k0))]
    IN  [offset |-> offset,
         body |-> TransactionBody_init(ins, outs, <<kern>>, assets, FALSE).val]

\* libtx::reward::output(keychain, builder, key_id, fees, height)
reward_output(key, fees, height) ==
    LET c == commit(reward(height, fees), key)
        excess == commit(0, key)
        k0 == [features |-> "Coinbase", fee |-> 0, lock_height |-> 0]
    IN  <<[features |-> "Coinbase", commit |-> c, proof |-> c],
          [features |-> "Coinbase", fee |-> 0, lock_height |-> 0, excess |-> excess,
           excess_sig |-> Sign(excess, Kernel_msg_to_sign(k0))]>>

\* the transactions of the tests: two inputs one output, a pair where the
\* second spends the output of the first, a height-locked one, and one that
\* creates an asset
TxPool ==
    <<build_transaction("Plain", 2, 0,
                        <<build_input(10, 1, NativeAsset), build_input(11, 2, NativeAsset)>>,
                        <<build_output(19, 3, NativeAsset)>>, <<>>, 1),
      build_transaction("Plain", 2, 0,
                        <<build_input(7, 4, NativeAsset)>>,
                        <<build_output(5, 5, NativeAsset)>>, <<>>, 0),
      build_transaction("Plain", 2, 0,
                        <<build_input(5, 5, NativeAsset)>>,
                        <<build_output(3, 6, NativeAsset)>>, <<>>, 3),
      build_transaction("HeightLocked", 1, 2,
                        <<build_input(6, 7, NativeAsset)>>,
                        <<build_output(5, 10, NativeAsset)>>, <<>>, 0),
      build_transaction("Plain", 2, 0,
                        <<build_input(8, 11, NativeAsset)>>,
                        <<build_output(6, 12, NativeAsset), build_output(5, 13, 3)>>,
                        <<build_new_action(3, 5, 21, 21)>>, 2)>>

RewardKey == 20

\* the sequences of at most MaxTxs pool transactions, in pool order
TxChoices ==
    {s \in UNION {[1..n -> DOMAIN TxPool] : n \in 0..MaxTxs} :
        \A i \in 1..(Len(s) - 1) : s[i] < s[i + 1]}

PickTxs(s) == [i \in DOMAIN s |-> TxPool[s[i]]]

\* the sum of the offsets of the picked transactions
AggOffset(s) == SumInts([i \in DOMAIN s |-> TxPool[s[i]].offset])

\* the pool transactions the receiver of a compact block holds: a spent
\* output with its spender, and the minting transaction
ReceiverPool == {2, 3, 5}

\* what a receiver may hand to hydrate_from: pool transactions in pool
\* order, the same one possibly twice
HydrateChoices ==
    {s \in UNION {[1..n -> ReceiverPool] : n \in 0..MaxTxs} :
        \A i \in 1..(Len(s) - 1) : s[i] <= s[i + 1]}

\* a transaction made of the outputs and kernels a compact block carries in full
EchoTx(cb) ==
    [offset |-> 0,
     body |-> [inputs |-> <<>>, outputs |-> cb.out_full,
               kernels |-> cb.kern_full, assets |-> <<>>]]

HydrateTxs(cb, s, echo) == PickTxs(s) \o (IF echo THEN <<EchoTx(cb)>> ELSE <<>>)

\* the issued-asset records the New actions of a body create
NewIssued(body) ==
    LET news == SelectSeq(body.assets, LAMBDA a : a.kind = "New")
    IN  [i \in DOMAIN news |-> news[i].issued]

\* the chain takes a block in: its offset, its mint overage and its new assets
Ledger_apply(l, b, offset) ==
    LET grow(m) ==
            [offset |-> l.offset + offset,
             minted |-> IF m.ok /\ m.val.some THEN l.minted + 1 ELSE l.minted,
             mint_sum |-> IF m.ok /\ m.val.some THEN VAdd(l.mint_sum, m.val.val)
                          ELSE l.mint_sum,
             issued |-> l.issued \o NewIssued(b.body)]
    IN  grow(Block_mint_overage(b))

RECURSIVE TxFees(_)
TxFees(txs) ==
    IF txs = <<>> THEN 0 ELSE TransactionBody_fee(Head(txs).body) + TxFees(Tail(txs))

----------------------------------------------------------------------------
(* The block workbench: blocks are built on the chain tip, checked by the  *)
(* validation entry points, transformed, compacted and hydrated, and       *)
(* accepted onto the chain when valid.  Field mutations stand for blocks   *)
(* received from an untrusted peer.                                        *)

Clock0 == DateTime(5, 0)
MinDifficulty == 1
LockChoices == {3}
NonceChoices == {1, 2}

\* the validation entry points applied to a block built on prev
Results(b, prevh) ==
    [validate |-> Block_validate(b, prevh.total_kernel_offset),
     validate_read |-> Block_validate_read(b),
     verify_coinbase |-> Block_verify_coinbase(b),
     kernel_sums |->
        LET m == Block_mint_overage(b)
            off == Block_block_kernel_offset(b, prevh.total_kernel_offset)
        IN  IF ~m.ok THEN m
            ELSE IF ~off.ok THEN off
            ELSE Block_verify_kernel_sums(b, BlockHeader_overage(b.header), m.val, off.val)]

BuildOps == {"from_reward"}
TamperOps == {"flip_output", "flip_kernel", "set_lock", "strip_blinding", "set_offset"}
OffsetDeltas == {-1}

\* the threads of the node that call into the block module
Threads == {"miner", "peer"}

\* a thread outside any call
IdleThread ==
    [op |-> "idle", prog |-> <<>>, pc |-> 1, blk |-> 0, outputs |-> <<>>, kernels |-> <<>>,
     result |-> NoRes, calls |-> 0]

WireIdle == wire = <<>> /\ sent = NoRes /\ rd = NoRes

\* no transactions handed over yet
NoPick == [built |-> <<>>, hydrated |-> <<>>, echo |-> FALSE]

\* the chain at genesis
EmptyLedger == [offset |-> 0, minted |-> 0, mint_sum |-> Infinity, issued |-> <<>>]

\* no thread has called into the module; the lazy static was never used
\* and the cache is empty
ThreadsIdle ==
    /\ secp_lock = "free"
    /\ zero_once = [state |-> "uninit", by |-> "nobody"]
    /\ verifier_cache = [rangeproofs |-> {}, kernel_sigs |-> {}]
    /\ threads = [t \in Threads |-> IdleThread]

Init ==
    /\ prev = BlockHeader_default
    /\ block = Block_with_header(BlockHeader_default)
    /\ orig = Block_with_header(BlockHeader_default)
    /\ op = "with_header"
    /\ res = NoRes
    /\ resOrig = NoRes
    /\ tampered = 0
    /\ compact = NoRes
    /\ picked = NoPick
    /\ ledger = EmptyLedger
    /\ now = Clock0
    /\ WireIdle
    /\ ThreadsIdle

\* new_block: Block::from_reward on the chain tip with the reward for the fees
Build(s) ==
    LET txs == PickTxs(s)
        rw == reward_output(RewardKey, TxFees(txs), prev.height + 1)
        pre == Block_from_reward_body(prev, txs, rw[1], rw[2], MinDifficulty, now)
        b == Block_from_reward(prev, txs, rw[1], rw[2], MinDifficulty, now)
    IN  /\ op = "with_header"
        /\ prev.height < MaxHeight
        /\ b.ok
        /\ block' = b.val
        /\ orig' = pre.val
        /\ op' = "from_reward"
        /\ res' = NoRes
        /\ resOrig' = NoRes
        /\ tampered' = 0
        /\ compact' = NoRes
        /\ picked' = [NoPick EXCEPT !.built = s]
        /\ UNCHANGED <<concVars, prev, wire, sent, now, rd, ledger>>

\* a block arrives whose sender aggregated the transactions and the reward
\* without cutting through
Receive(s) ==
    LET txs == PickTxs(s)
        rw == reward_output(RewardKey, TxFees(txs), prev.height + 1)
        pre == Block_from_reward_body(prev, txs, rw[1], rw[2], MinDifficulty, now)
    IN  /\ op = "with_header"
        /\ prev.height < MaxHeight
        /\ pre.ok
        /\ block' = pre.val
        /\ orig' = pre.val
        /\ op' = "received"
        /\ res' = NoRes
        /\ resOrig' = NoRes
        /\ tampered' = 0
        /\ compact' = NoRes
        /\ picked' = [NoPick EXCEPT !.built = s]
        /\ UNCHANGED <<concVars, prev, wire, sent, now, rd, ledger>>

\* validate, validate_read, verify_coinbase and verify_kernel_sums on the block
Check ==
    /\ res = NoRes
    /\ res' = Results(block, prev)
    /\ UNCHANGED <<concVars, prev, block, orig, op, resOrig, tampered, wire, sent, now, rd, compact,
                   picked, ledger>>

Transform(b, name) ==
    /\ block' = b
    /\ orig' = block
    /\ resOrig' = res
    /\ res' = NoRes
    /\ op' = name
    /\ UNCHANGED <<concVars, prev, wire, sent, now, rd, compact, picked, ledger>>

\* Block::cut_through on the block (hydrate_from has already applied it)
CutThrough ==
    LET r == Block_cut_through(block)
    IN  /\ res # NoRes
        /\ op # "hydrate_from"
        /\ r.ok
        /\ Transform(r.val, "cut_through")
        /\ UNCHANGED tampered

\* Block::with_reward on the block with a reward made under another key
WithReward ==
    LET rw == reward_output(RewardKey + 1, Block_total_fees(block), block.header.height)
    IN  /\ res # NoRes
        /\ op \in BuildOps \cup {"with_header"}
        /\ compact = NoRes
        /\ Transform(Block_with_reward(block, rw[1], rw[2]), "with_reward")
        /\ UNCHANGED tampered

CanTamper ==
    /\ res # NoRes
    /\ compact = NoRes
    /\ tampered < MaxTamper
    /\ op \in BuildOps \cup TamperOps

\* a peer clears the coinbase flag of output i
FlipOutput(i) ==
    /\ CanTamper
    /\ i \in DOMAIN block.body.outputs
    /\ block.body.outputs[i].features = "Coinbase"
    /\ Transform([block EXCEPT !.body.outputs[i].features = "Plain"], "flip_output")
    /\ tampered' = tampered + 1

\* a peer clears the coinbase flag of kernel i
FlipKernel(i) ==
    /\ CanTamper
    /\ i \in DOMAIN block.body.kernels
    /\ block.body.kernels[i].features = "Coinbase"
    /\ Transform([block EXCEPT !.body.kernels[i].features = "Plain",
                               !.body.kernels[i].fee = 0], "flip_kernel")
    /\ tampered' = tampered + 1

\* a peer turns kernel i into a height-locked kernel
SetLock(i, h) ==
    /\ CanTamper
    /\ i \in DOMAIN block.body.kernels
    /\ block.body.kernels[i].features = "Plain"
    /\ Transform([block EXCEPT !.body.kernels[i].features = "HeightLocked",
                               !.body.kernels[i].lock_height = h], "set_lock")
    /\ tampered' = tampered + 1

\* a peer replaces the commitment of coinbase output i by the commitment to
\* the same value with a zero blinding factor
StripBlinding(i) ==
    /\ CanTamper
    /\ i \in DOMAIN block.body.outputs
    /\ block.body.outputs[i].features = "Coinbase"
    /\ block.body.outputs[i].commit[1] # 0
    /\ Transform([block EXCEPT !.body.outputs[i].commit[1] = 0], "strip_blinding")
    /\ tampered' = tampered + 1

\* a peer declares a different total kernel offset in the header
SetOffset(d) ==
    /\ CanTamper
    /\ Transform([block EXCEPT !.header.total_kernel_offset = @ + d], "set_offset")
    /\ tampered' = tampered + 1

\* CompactBlock::from(block) with a fresh nonce
Compact(nonce) ==
    /\ res # NoRes
    /\ op \in BuildOps
    /\ compact = NoRes
    /\ compact' = CompactBlock_from(block, nonce)
    /\ UNCHANGED <<concVars, prev, block, orig, op, res, resOrig, tampered, wire, sent, now, rd,
                   picked, ledger>>

\* Block::hydrate_from(compact, txs) with transactions of the receiver's pool,
\* and the receiver's validation of the block it gives;
\* s may name a pool transaction twice; with echo the receiver also hands
\* over a transaction made of the items the compact block carries in full
Hydrate(s, echo) ==
    /\ compact # NoRes
    /\ res # NoRes
    /\ op \in BuildOps
    /\ \E txs \in {HydrateTxs(compact, s, echo)} :
        \E b \in {Block_hydrate_from(compact, txs)} :
            /\ b.ok
            /\ block' = b.val
            /\ orig' = Block_hydrate_from_body(compact, txs).val
            /\ res' = Results(b.val, prev)
    /\ op' = "hydrate_from"
    /\ resOrig' = NoRes
    /\ picked' = [picked EXCEPT !.hydrated = s, !.echo = echo]
    /\ UNCHANGED <<concVars, prev, tampered, wire, sent, now, rd, compact, ledger>>

\* the chain accepts a block that passed full validation
Accept ==
    /\ res # NoRes
    /\ res.validate.ok
    /\ op \in BuildOps
    /\ prev' = block.header
    /\ block' = Block_with_header(block.header)
    /\ orig' = Block_with_header(block.header)
    /\ op' = "with_header"
    /\ res' = NoRes
    /\ resOrig' = NoRes
    /\ tampered' = 0
    /\ compact' = NoRes
    /\ picked' = NoPick
    /\ ledger' = Ledger_apply(ledger, block, AggOffset(picked.built))
    /\ UNCHANGED <<concVars, wire, sent, now, rd>>

Next ==
    \/ \E s \in TxChoices : Build(s)
    \/ \E s \in TxChoices : Receive(s)
    \/ Check
    \/ CutThrough
    \/ WithReward
    \/ \E i \in 1..4 : FlipOutput(i)
    \/ \E i \in 1..4 : FlipKernel(i)
    \/ \E i \in 1..4, h \in LockChoices : SetLock(i, h)
    \/ \E i \in 1..4 : StripBlinding(i)
    \/ \E d \in OffsetDeltas : SetOffset(d)
    \/ \E n \in NonceChoices : Compact(n)
    \/ \E s \in HydrateChoices, echo \in BOOLEAN : Hydrate(s, echo)
    \/ Accept

Spec == Init /\ [][Next]_vars

----------------------------------------------------------------------------
(* The chain of the asset tests (chain/tests/test_issue_assets.rs): blocks  *)
(* are mined on the head with the roots and sizes of the chain's MMRs set,  *)
(* and processed by the chain.                                              *)

\* build::coinbase_input
build_coinbase_input(value, key) ==
    [features |-> "Coinbase", commit |-> commit(value, key)]

\* the transactions of the harness: one spending a coinbase, one spending a
\* plain output, and one issuing each of two assets with a New action signed
\* by its owner
IssuePool ==
    <<build_transaction("Plain", 2, 0,
                        <<build_coinbase_input(reward(1, 0), 30)>>,
                        <<build_output(reward(1, 0) - 2, 31, NativeAsset)>>, <<>>, 4),
      build_transaction("Plain", 2, 0,
                        <<build_input(58, 31, NativeAsset)>>,
                        <<build_output(56, 32, NativeAsset)>>, <<>>, 1),
      build_transaction("Plain", 2, 0,
                        <<build_input(58, 33, NativeAsset)>>,
                        <<build_output(56, 34, NativeAsset), build_output(100, 35, 3)>>,
                        <<build_new_action(3, 100, 41, 41)>>, 2),
      build_transaction("Plain", 2, 0,
                        <<build_input(58, 36, NativeAsset)>>,
                        <<build_output(56, 37, NativeAsset), build_output(100, 38, 4)>>,
                        <<build_new_action(4, 100, 42, 42)>>, 3)>>

\* the sequences of at most MaxTxs harness transactions, in pool order
IssueChoices ==
    {s \in UNION {[1..n -> DOMAIN IssuePool] : n \in 0..MaxTxs} :
        \A i \in 1..(Len(s) - 1) : s[i] < s[i + 1]}

PickIssue(s) == [i \in DOMAIN s |-> IssuePool[s[i]]]

IssueOffset(s) == SumInts([i \in DOMAIN s |-> IssuePool[s[i]].offset])

RECURSIVE BitCount(_)
BitCount(n) == IF n = 0 THEN 0 ELSE (n % 2) + BitCount(n \div 2)

\* the number of nodes of an MMR of n leaves
MMR_size(n) == 2 * n - BitCount(n)

\* Chain::set_txhashset_roots, the issue MMR: the block's new assets are
\* appended to the leaves the chain holds, and the header declares the root
\* and the size of the result
set_txhashset_roots(b, l) ==
    LET declare(leaves) ==
            [b EXCEPT !.header.issue_root = Hash(leaves),
                      !.header.issue_mmr_size = MMR_size(Len(leaves))]
    IN  declare(l.issued \o NewIssued(b.body))

\* the proof pow_size finds for a header
MinedProof == Proof(MIN_EDGE_BITS, [i \in 1..PROOFSIZE |-> i])

\* Harness::build_block: Block::new on the head with the reward for the
\* fees, the timestamp one block interval after the head's, the roots of
\* the chain, and the proof of work
Mine(s) ==
    /\ op = "with_header"
    /\ prev.height < MaxHeight
    /\ \E txs \in {PickIssue(s)} :
        \E rw \in {reward_output(RewardKey, TxFees(txs), prev.height + 1)} :
        \E b \in {Block_from_reward(prev, txs, rw[1], rw[2], MinDifficulty, now)} :
            /\ b.ok
            /\ orig' = b.val
            /\ block' = [set_txhashset_roots(b.val, ledger) EXCEPT
                            !.header.timestamp = plus_seconds(prev.timestamp, BLOCK_TIME_SEC),
                            !.header.pow.proof = MinedProof]
    /\ op' = "build_block"
    /\ res' = NoRes
    /\ resOrig' = NoRes
    /\ tampered' = 0
    /\ compact' = NoRes
    /\ picked' = [NoPick EXCEPT !.built = s]
    /\ UNCHANGED <<concVars, prev, wire, sent, now, rd, ledger>>

\* Harness::mine_block: chain.process_block takes a valid block as the head
Process ==
    /\ op = "build_block"
    /\ res # NoRes
    /\ res.validate.ok
    /\ prev' = block.header
    /\ block' = Block_with_header(block.header)
    /\ orig' = Block_with_header(block.header)
    /\ op' = "with_header"
    /\ res' = NoRes
    /\ resOrig' = NoRes
    /\ tampered' = 0
    /\ compact' = NoRes
    /\ picked' = NoPick
    /\ ledger' = Ledger_apply(ledger, block, IssueOffset(picked.built))
    /\ UNCHANGED <<concVars, wire, sent, now, rd>>

NextChain ==
    \/ \E s \in IssueChoices : Mine(s)
    \/ Check
    \/ Process

SpecChain == Init /\ [][NextChain]_vars

----------------------------------------------------------------------------
(* Properties of block validation, cut-through and the coinbase rules      *)

\* sum(output commitments) - sum(input commitments) of a block
UtxoSum(b) == VAdd(VSum(MapCommit(b.body.outputs)), VNeg(VSum(MapCommit(b.body.inputs))))

\* sum of the kernel excess commitments of a block
KernelSum(b) == VSum(MapExcess(b.body.kernels))

\* the supply the asset actions of a block create, one commitment per action
MintSum(b) ==
    VSum([i \in DOMAIN b.body.assets |->
            LET a == b.body.assets[i]
                c == ToTuple(commit_with_generator(a.amount, 0, a.asset))
            IN  IF a.kind = "Withdraw" THEN VNeg(c) ELSE c])

\* the kernel-sum equation of a block built on the header prevh
Balanced(b, prevh) ==
    UtxoSum(b) =
        VAdd(VAdd(KernelSum(b),
                  commit(0, b.header.total_kernel_offset - prevh.total_kernel_offset)),
             VAdd(commit(reward(b.header.height, 0), 0), MintSum(b)))

\* C1: Block::validate returns Ok(c) only for a block whose outputs minus
\* inputs equal the kernel excesses plus the commitment to the block's kernel
\* offset plus the coinbase reward and the minted supply, and c is then the
\* sum of the kernel excesses; a block off balance is never accepted.
C1_ValidateBalances ==
    res # NoRes =>
        /\ res.validate.ok => Balanced(block, prev) /\ res.validate.val = KernelSum(block)
        /\ ~Balanced(block, prev) => ~res.validate.ok

\* a block that mints an asset on a tip with a kernel offset was accepted
C1_Witness ==
    /\ res # NoRes
    /\ res.validate.ok
    /\ block.body.assets # <<>>
    /\ block.body.inputs # <<>>
    /\ prev.total_kernel_offset # 0
    /\ block.header.total_kernel_offset # prev.total_kernel_offset

\* C2: a valid block and its cut-through validate to the same kernel sum,
\* and cutting through (in cut_through, from_reward or hydrate_from) changes
\* neither outputs minus inputs nor the kernel sum.
C2_CutThroughKeepsSums ==
    /\ (op = "cut_through" /\ res # NoRes /\ resOrig.validate.ok) =>
            res.validate = resOrig.validate
    /\ op \in {"cut_through", "from_reward", "hydrate_from"} =>
            UtxoSum(block) = UtxoSum(orig) /\ KernelSum(block) = KernelSum(orig)

\* a valid block was cut through and validated again
C2_Witness ==
    /\ op = "cut_through"
    /\ res # NoRes
    /\ resOrig.validate.ok
    /\ res.validate.ok
    /\ Len(block.body.kernels) = 3

\* a received block with a spent output validates once it is cut through
C2_WitnessPair ==
    /\ op = "cut_through"
    /\ res # NoRes
    /\ res.validate.ok
    /\ Len(block.body.inputs) < Len(orig.body.inputs)

Count(s, x) == Cardinality({i \in DOMAIN s : s[i] = x})
SameItems(s, t) == \A x \in Range(s) \cup Range(t) : Count(s, x) = Count(t, x)
Commits(s) == {s[i].commit : i \in DOMAIN s}

\* C3: after cut_through, from_reward and hydrate_from no output of the block
\* has the commitment of one of its inputs, the inputs and outputs without a
\* counterpart are all still there, and header, kernels and asset actions are
\* those of the body before the cut-through.
C3_CutThroughResult ==
    op \in {"cut_through", "from_reward", "hydrate_from"} =>
        /\ Commits(block.body.inputs) \cap Commits(block.body.outputs) = {}
        /\ \A x \in Range(orig.body.inputs) :
                x.commit \notin Commits(orig.body.outputs) => x \in Range(block.body.inputs)
        /\ \A x \in Range(orig.body.outputs) :
                x.commit \notin Commits(orig.body.inputs) => x \in Range(block.body.outputs)
        /\ block.header = orig.header
        /\ SameItems(block.body.kernels, orig.body.kernels)
        /\ SameItems(block.body.assets, orig.body.assets)

\* from_reward removed a spent output and kept the other items
C3_Witness ==
    /\ op = "from_reward"
    /\ Len(block.body.outputs) < Len(orig.body.outputs)
    /\ Len(block.body.inputs) >= 1
    /\ Len(block.body.outputs) >= 2

\* hydrate_from removed a spent output
C3_WitnessHydrate ==
    /\ op = "hydrate_from"
    /\ Len(block.body.outputs) < Len(orig.body.outputs)

\* C4: clearing the coinbase flag of one output or one kernel of a valid
\* block makes verify_coinbase and validate fail while validate_read still
\* succeeds, and for an output flag verify_kernel_sums still succeeds.
C4_CoinbaseFlagFlip ==
    (op \in {"flip_output", "flip_kernel"} /\ res # NoRes /\ resOrig.validate.ok) =>
        /\ ~res.verify_coinbase.ok
        /\ ~res.validate.ok
        /\ res.validate_read.ok
        /\ op = "flip_output" => res.kernel_sums.ok

\* the coinbase output flag of a valid block with transactions was cleared
C4_Witness ==
    /\ op = "flip_output"
    /\ res # NoRes
    /\ resOrig.validate.ok
    /\ Len(block.body.outputs) > 1

\* the coinbase kernel flag of a valid block was cleared
C4_WitnessKernel ==
    /\ op = "flip_kernel"
    /\ res # NoRes
    /\ resOrig.validate.ok

\* the coinbase outputs less the reward, and the coinbase kernel excesses
CoinbaseOutputSum(b) ==
    VAdd(VSum(MapCommit(SelectSeq(b.body.outputs, LAMBDA o : o.features = "Coinbase"))),
         VNeg(commit(reward(b.header.height, SumFees(b.body.kernels)), 0)))
CoinbaseKernelSum(b) ==
    VSum(MapExcess(SelectSeq(b.body.kernels, LAMBDA k : k.features = "Coinbase")))
NoCoinbase(b) ==
    /\ \A i \in DOMAIN b.body.outputs : b.body.outputs[i].features # "Coinbase"
    /\ \A i \in DOMAIN b.body.kernels : b.body.kernels[i].features # "Coinbase"
IncorrectCommitSum == Err(<<"Secp", "IncorrectCommitSum">>, 0)

\* C5 as stated: verify_coinbase returns Ok exactly when the coinbase outputs
\* less the reward equal the coinbase kernel excesses, differing sums give
\* CoinbaseSumMismatch, and a block without any coinbase item fails with
\* Secp(IncorrectCommitSum).
C5_AsStated ==
    res # NoRes =>
        /\ res.verify_coinbase.ok <=> CoinbaseOutputSum(block) = CoinbaseKernelSum(block)
        /\ (/\ CoinbaseOutputSum(block) # CoinbaseKernelSum(block)
            /\ CoinbaseOutputSum(block) # Infinity
            /\ CoinbaseKernelSum(block) # Infinity) =>
                res.verify_coinbase = Err(<<"CoinbaseSumMismatch">>, 0)
        /\ NoCoinbase(block) => res.verify_coinbase = IncorrectCommitSum

\* C5: verify_coinbase returns Ok exactly when the coinbase outputs less the
\* reward and the coinbase kernel excesses are equal and neither is the point
\* at infinity; when they differ and neither is the point at infinity it
\* fails with CoinbaseSumMismatch; when either is the point at infinity, as
\* in a block without any coinbase item, it fails with
\* Secp(IncorrectCommitSum).
C5_VerifyCoinbase ==
    res # NoRes =>
        LET o == CoinbaseOutputSum(block)
            k == CoinbaseKernelSum(block)
        IN  /\ res.verify_coinbase.ok <=> (o = k /\ o # Infinity)
            /\ (o # k /\ o # Infinity /\ k # Infinity) =>
                    res.verify_coinbase = Err(<<"CoinbaseSumMismatch">>, 0)
            /\ (o = Infinity \/ k = Infinity) => res.verify_coinbase = IncorrectCommitSum
            /\ NoCoinbase(block) => res.verify_coinbase = IncorrectCommitSum

\* both coinbase sums are the point at infinity, with a coinbase output
\* present, and verify_coinbase refused the block
C5_Witness ==
    /\ res # NoRes
    /\ CoinbaseOutputSum(block) = CoinbaseKernelSum(block)
    /\ ~NoCoinbase(block)
    /\ res.verify_coinbase = IncorrectCommitSum

\* the height-locked kernels of a block whose lock is above its height
LockViolations(b) ==
    {i \in DOMAIN b.body.kernels :
        /\ b.body.kernels[i].features = "HeightLocked"
        /\ b.body.kernels[i].lock_height > b.header.height}
FirstLock(b) ==
    b.body.kernels[CHOOSE i \in LockViolations(b) : \A j \in LockViolations(b) : i <= j].lock_height
IsLockError(r) == ~r.ok /\ r.err.path = <<"KernelLockHeight">>

\* C6 as stated: validate and validate_read both fail with KernelLockHeight(h)
\* whenever a kernel is height-locked above the block's height.
C6_AsStated ==
    (res # NoRes /\ LockViolations(block) # {}) =>
        /\ res.validate = Err(<<"KernelLockHeight">>, FirstLock(block))
        /\ res.validate_read = Err(<<"KernelLockHeight">>, FirstLock(block))

\* C6: when a kernel is height-locked above the block's height,
\* validate_read fails with KernelLockHeight(h) if the body passes its read
\* validation and validate fails with it if the body passes its full
\* validation, h being the lock of the first such kernel; otherwise the body's
\* own error is returned.  Without such a kernel neither returns
\* KernelLockHeight.
C6_LockHeights ==
    res # NoRes =>
        LET body_read == TransactionBody_validate_read(block.body)
            body_full == TransactionBody_validate(block.body)
        IN  /\ (LockViolations(block) # {} /\ body_read.ok) =>
                    res.validate_read = Err(<<"KernelLockHeight">>, FirstLock(block))
            /\ (LockViolations(block) # {} /\ body_full.ok) =>
                    res.validate = Err(<<"KernelLockHeight">>, FirstLock(block))
            /\ ~body_read.ok => res.validate_read = FromTransaction(body_read)
            /\ ~body_full.ok => res.validate = FromTransaction(body_full)
            /\ LockViolations(block) = {} =>
                    ~IsLockError(res.validate) /\ ~IsLockError(res.validate_read)

\* a block with a kernel locked above its height was refused by both
C6_Witness ==
    /\ res # NoRes
    /\ IsLockError(res.validate)
    /\ IsLockError(res.validate_read)

\* a kernel locked at the block's height was accepted
C6_WitnessEqual ==
    /\ res # NoRes
    /\ res.validate.ok
    /\ \E i \in DOMAIN block.body.kernels :
            /\ block.body.kernels[i].features = "HeightLocked"
            /\ block.body.kernels[i].lock_height = block.header.height

\* C10: the hash of a block and of every compact block made from it is the
\* hash of the header, which covers the proof of work alone: compactions
\* with different nonces hash alike, and neither a change of the body nor of
\* the header's pre-pow fields changes the hash.
C10_HashIsHeaderPow ==
    /\ Block_hash(block) = BlockHeader_hash(block.header)
    /\ BlockHeader_hash(block.header) = Hash(ProofOfWork_write(block.header.pow))
    /\ \A n \in NonceChoices :
            CompactBlock_hash(CompactBlock_from(block, n)) = Block_hash(block)
    /\ compact # NoRes => CompactBlock_hash(compact) = Block_hash(block)
    /\ op \in TamperOps \cup {"cut_through", "hydrate_from"} =>
            Block_hash(block) = Block_hash(orig)

\* a block was compacted with the second nonce and hydrated into a block
\* with another body
C10_Witness ==
    /\ compact # NoRes
    /\ compact.nonce = 2
    /\ compact.kern_ids # <<>>
    /\ op = "hydrate_from"
    /\ Len(block.body.kernels) # Len(compact.kern_ids) + Len(compact.kern_full)
    /\ CompactBlock_hash(compact) = Block_hash(block)

----------------------------------------------------------------------------
(* Properties of compaction and hydration                                  *)

IsCoinbase(x) == x.features = "Coinbase"
CoinbaseCount(s) == Cardinality({i \in DOMAIN s : IsCoinbase(s[i])})
OtherCount(s) == Cardinality({i \in DOMAIN s : ~IsCoinbase(s[i])})

\* C11: the compact block of a block carries every coinbase output and
\* every coinbase kernel in full and, for each other kernel k, exactly one
\* short ID, equal to the short ID a receiver computes for k from the
\* compact block's hash and nonce; the three lengths are the numbers of
\* coinbase outputs, coinbase kernels and other kernels of the block.
C11_CompactKeepsCoinbase ==
    (compact # NoRes /\ op = "from_reward") =>
        /\ Len(compact.out_full) = CoinbaseCount(block.body.outputs)
        /\ Len(compact.kern_full) = CoinbaseCount(block.body.kernels)
        /\ Len(compact.kern_ids) = OtherCount(block.body.kernels)
        /\ \A o \in Range(block.body.outputs) :
                IsCoinbase(o) => Count(compact.out_full, o) = Count(block.body.outputs, o)
        /\ \A k \in Range(block.body.kernels) :
                IF IsCoinbase(k)
                THEN Count(compact.kern_full, k) = Count(block.body.kernels, k)
                ELSE Count(compact.kern_ids,
                           short_id(k, CompactBlock_hash(compact), compact.nonce)) = 1
        /\ compact.header = block.header

\* a block of two transactions was compacted
C11_Witness ==
    /\ compact # NoRes
    /\ op = "from_reward"
    /\ Len(compact.kern_ids) = 2
    /\ Len(compact.out_full) = 1
    /\ Len(compact.kern_full) = 1
    /\ Len(block.body.outputs) > 1

\* every item of the field f of the transactions txs
TxItems(txs, f) == UNION {Range(txs[i].body[f]) : i \in DOMAIN txs}

\* hydrate_from succeeds on whatever transactions it is given
HydrateNeverFails ==
    (compact # NoRes /\ op = "from_reward") =>
        \A s \in HydrateChoices, echo \in BOOLEAN :
            Block_hydrate_from(compact, HydrateTxs(compact, s, echo)).ok

\* what a hydration step produces
HydrateStep ==
    (op' = "hydrate_from" /\ op = "from_reward") =>
        LET txs == HydrateTxs(compact, picked'.hydrated, picked'.echo)
            gathered == orig'.body
            body == block'.body
        IN  /\ block'.header = compact.header
            /\ orig'.header = compact.header
            /\ Range(gathered.inputs) = TxItems(txs, "inputs")
            /\ Range(gathered.assets) = TxItems(txs, "assets")
            /\ Range(gathered.outputs) = TxItems(txs, "outputs") \cup Range(compact.out_full)
            /\ Range(gathered.kernels) = TxItems(txs, "kernels") \cup Range(compact.kern_full)
            /\ Range(body.inputs) =
                    {x \in Range(gathered.inputs) : x.commit \notin Commits(gathered.outputs)}
            /\ Range(body.outputs) =
                    {x \in Range(gathered.outputs) : x.commit \notin Commits(gathered.inputs)}
            /\ Range(body.kernels) = Range(gathered.kernels)
            /\ Range(body.assets) = Range(gathered.assets)
            /\ picked'.hydrated = picked.built =>
                    /\ block'.header = block.header
                    /\ block'.body.outputs = block.body.outputs
                    /\ block'.body.kernels = block.body.kernels

\* C12: hydrate_from(cb, txs) returns cb's header unchanged over the
\* cut-through of the inputs and asset actions of txs, the outputs of txs
\* and cb's full outputs, the kernels of txs and cb's full kernels; it never
\* fails, whatever the short IDs declare; and hydrating the compaction of a
\* block with the block's own transactions gives back its header, outputs
\* and kernels.
C12_HydrateFrom == [](HydrateNeverFails) /\ [][HydrateStep]_vars

\* a block of two transactions, compacted, was hydrated from the same two
C12_Witness ==
    /\ op = "hydrate_from"
    /\ Len(picked.built) = 2
    /\ picked.hydrated = picked.built
    /\ Len(block.body.kernels) = 3

\* a block hydrated from transactions the short IDs do not name is returned
\* and fails validation
C12_WitnessForeign ==
    /\ op = "hydrate_from"
    /\ res # NoRes
    /\ ~res.validate.ok
    /\ picked.hydrated # picked.built
    /\ Len(block.body.kernels) # Len(compact.kern_ids) + Len(compact.kern_full)

NoDuplicates(s) == \A i, j \in DOMAIN s : s[i] = s[j] => i = j

\* C13: a hydrated block holds no input, output, kernel or asset action
\* twice, also when a transaction was handed over twice or repeats what the
\* compact block carries in full.
C13_HydrateNoDuplicates ==
    op = "hydrate_from" =>
        /\ NoDuplicates(block.body.inputs)
        /\ NoDuplicates(block.body.outputs)
        /\ NoDuplicates(block.body.kernels)
        /\ NoDuplicates(block.body.assets)

\* the minting transaction was handed over twice, together with a
\* transaction repeating the coinbase output and kernel
C13_Witness ==
    /\ op = "hydrate_from"
    /\ Len(picked.hydrated) = 2
    /\ picked.hydrated[1] = picked.hydrated[2]
    /\ picked.echo
    /\ compact.out_full # <<>>
    /\ block.body.assets # <<>>
    /\ block.body.inputs # <<>>

----------------------------------------------------------------------------
(* Properties of the running totals of the header                          *)

\* C14: a block built by from_reward declares the total kernel offset of
\* the tip plus the offset of its aggregated transactions, and
\* block_kernel_offset against the tip's total returns that offset (zero
\* when the totals are equal); the tip's total is the sum of the offsets of
\* all blocks accepted since genesis.
C14_KernelOffsets ==
    /\ op = "from_reward" =>
            /\ block.header.total_kernel_offset =
                    prev.total_kernel_offset + AggOffset(picked.built)
            /\ Block_block_kernel_offset(block, prev.total_kernel_offset) =
                    Ok(AggOffset(picked.built))
    /\ prev.total_kernel_offset = ledger.offset

\* a block with an offset built on a tip that has one
C14_Witness ==
    /\ op = "from_reward"
    /\ prev.height >= 1
    /\ prev.total_kernel_offset # 0
    /\ AggOffset(picked.built) # 0
    /\ block.header.total_kernel_offset # AggOffset(picked.built)

\* a block without offset built on a tip that has one
C14_WitnessZero ==
    /\ op = "from_reward"
    /\ prev.total_kernel_offset # 0
    /\ picked.built # <<>>
    /\ block.header.total_kernel_offset = prev.total_kernel_offset

\* the block carries one asset action, a New action signed by the owner it
\* names, and puts out exactly the supply it declares
SoleSignedNew(b) ==
    /\ Len(b.body.assets) = 1
    /\ b.body.assets[1].kind = "New"
    /\ AssetAction_validate(b.body.assets[1])
    /\ UtxoSum(b)[b.body.assets[1].asset] = b.body.assets[1].issued.supply

NewActions(b) == SelectSeq(b.body.assets, LAMBDA a : a.kind = "New")

\* C16: the first block of a chain that issues an asset declares its own
\* mint overage as the total issue overage, an issue MMR of size 1 and an
\* issue root that is not the zero hash.
C16_FirstIssueHeader ==
    (op = "build_block" /\ prev.total_issue_overage = ZERO_OVERAGE_COMMITMENT
        /\ Len(block.body.assets) = 1 /\ Len(NewActions(block)) = 1) =>
        /\ block.header.total_issue_overage = MintSum(block)
        /\ Block_mint_overage(block) = Ok(Some(block.header.total_issue_overage))
        /\ block.header.issue_mmr_size = 1
        /\ block.header.issue_root # ZERO_HASH

\* the first issuing block, mined on a head above genesis, is valid
C16_Witness ==
    /\ op = "build_block"
    /\ prev.height >= 1
    /\ prev.total_issue_overage = ZERO_OVERAGE_COMMITMENT
    /\ Len(block.body.assets) = 1
    /\ Len(NewActions(block)) = 1
    /\ res # NoRes
    /\ res.validate.ok

\* the total issue overage a chain with the given history declares
IssuedSoFar(minted, mint_sum) ==
    IF minted = 0 THEN ZERO_OVERAGE_COMMITMENT ELSE mint_sum

\* C17: along a chain built by from_reward from the default header, the
\* total issue overage is the baseline while no block carried a mint
\* overage and the sum of the mint overages of all blocks so far afterwards;
\* a block without asset actions declares the total of its predecessor.
C17_IssueOverageChain ==
    /\ prev.total_issue_overage = IssuedSoFar(ledger.minted, ledger.mint_sum)
    /\ op = "build_block" =>
            block.header.total_issue_overage =
                IF block.body.assets = <<>> THEN prev.total_issue_overage
                ELSE IssuedSoFar(ledger.minted + 1, VAdd(ledger.mint_sum, MintSum(block)))

\* the second block that issues an asset, another one than the first
C17_Witness ==
    /\ op = "build_block"
    /\ ledger.minted = 1
    /\ Len(ledger.issued) = 1
    /\ Len(NewActions(block)) = 1
    /\ NewActions(block)[1].asset # ledger.issued[1].asset
    /\ block.header.total_issue_overage # MintSum(block)
    /\ block.header.issue_mmr_size = 3
    /\ res # NoRes
    /\ res.validate.ok

\* a block without asset actions on a chain that has issued an asset
C17_WitnessCarried ==
    /\ op = "build_block"
    /\ ledger.minted = 1
    /\ block.body.assets = <<>>
    /\ block.header.total_issue_overage # ZERO_OVERAGE_COMMITMENT

----------------------------------------------------------------------------
(* The wire: headers and blocks are serialized, sent, and read back by the *)
(* trusted and the untrusted readers while the clock advances.             *)

VersionChoices == {1, 2}
HeightChoices == {1, 2}
\* timestamps around twelve block intervals after the first clock reading
TimestampChoices ==
    {Clock0.secs, Clock0.secs + 12 * BLOCK_TIME_SEC, Clock0.secs + 12 * BLOCK_TIME_SEC + 1}
NanosChoices == {0, 500}
EdgeBitsChoices == {SECOND_POW_EDGE_BITS, SECOND_POW_EDGE_BITS + 1, MIN_EDGE_BITS}
ProofLenChoices == {PROOFSIZE - 1, PROOFSIZE}
ClockTicks == 2

\* a header whose fields all differ
HeaderSample(version, height, secs, nanos, edge_bits, n) ==
    [version |-> version,
     height |-> height,
     timestamp |-> DateTime(secs, nanos),
     prev_hash |-> Hash(<<1>>),
     prev_root |-> Hash(<<2>>),
     output_root |-> Hash(<<3>>),
     range_proof_root |-> Hash(<<4>>),
     kernel_root |-> Hash(<<5>>),
     issue_root |-> Hash(<<6>>),
     total_kernel_offset |-> 7,
     total_issue_overage |-> commit_value_with_generator(5, 3),
     output_mmr_size |-> 8,
     kernel_mmr_size |-> 9,
     issue_mmr_size |-> 10,
     pow |-> [total_difficulty |-> 11, secondary_scaling |-> 12, nonce |-> 13,
              proof |-> Proof(edge_bits, [i \in 1..n |-> 13 + i])]]

blockVars == <<prev, block, orig, op, res, resOrig, tampered, compact, picked, ledger,
               concVars>>

\* a peer or the miner holds a header
MakeHeader(version, height, secs, nanos, edge_bits, n) ==
    /\ sent = NoRes
    /\ sent' = [kind |-> "header",
                val |-> HeaderSample(version, height, secs, nanos, edge_bits, n)]
    /\ UNCHANGED <<wire, now, rd>>
    /\ UNCHANGED blockVars

\* the header of a fresh block: BlockHeader::default()
MakeDefaultHeader ==
    /\ sent = NoRes
    /\ sent' = [kind |-> "header", val |-> BlockHeader_default]
    /\ UNCHANGED <<wire, now, rd>>
    /\ UNCHANGED blockVars

\* the miner builds a block on the chain tip
MakeBlock(s) ==
    LET txs == PickTxs(s)
        rw == reward_output(RewardKey, TxFees(txs), prev.height + 1)
        b == Block_from_reward(prev, txs, rw[1], rw[2], MinDifficulty, now)
    IN  /\ sent = NoRes
        /\ b.ok
        /\ sent' = [kind |-> "block", val |-> b.val]
        /\ UNCHANGED <<wire, now, rd>>
        /\ UNCHANGED blockVars

\* ser::serialize of the header or the block
Serialize ==
    /\ sent # NoRes
    /\ wire = <<>>
    /\ wire' = IF sent.kind = "header" THEN BlockHeader_write(sent.val, "Full")
               ELSE Block_write(sent.val, "Full")
    /\ UNCHANGED <<sent, now, rd>>
    /\ UNCHANGED blockVars

\* a peer sends bytes whose timestamp is outside the range of dates
ForgeTimestamp(ts) ==
    /\ wire # <<>>
    /\ rd = NoRes
    /\ sent.kind = "header"
    /\ wire' = [wire EXCEPT ![3] = ts]
    /\ sent' = [kind |-> "forged", val |-> sent.val]
    /\ UNCHANGED <<now, rd>>
    /\ UNCHANGED blockVars

\* ser::deserialize::<BlockHeader>
ReadHeader ==
    /\ wire # <<>>
    /\ rd = NoRes
    /\ rd' = [by |-> "BlockHeader", at |-> now, r |-> BlockHeader_read(wire)]
    /\ UNCHANGED <<wire, sent, now>>
    /\ UNCHANGED blockVars

\* ser::deserialize::<UntrustedBlockHeader>
ReadUntrustedHeader ==
    /\ wire # <<>>
    /\ rd = NoRes
    /\ rd' = [by |-> "UntrustedBlockHeader", at |-> now,
              r |-> UntrustedBlockHeader_read(wire, now)]
    /\ UNCHANGED <<wire, sent, now>>
    /\ UNCHANGED blockVars

\* ser::deserialize::<Block>
ReadBlock ==
    /\ wire # <<>>
    /\ rd = NoRes
    /\ sent.kind = "block"
    /\ rd' = [by |-> "Block", at |-> now, r |-> Block_read(wire)]
    /\ UNCHANGED <<wire, sent, now>>
    /\ UNCHANGED blockVars

\* a block arrives from a peer that aggregated the transactions and the
\* reward without cutting through
MakeUncutBlock(s) ==
    LET txs == PickTxs(s)
        rw == reward_output(RewardKey, TxFees(txs), prev.height + 1)
        b == Block_from_reward_body(prev, txs, rw[1], rw[2], MinDifficulty, now)
    IN  /\ sent = NoRes
        /\ b.ok
        /\ ~TransactionBody_verify_cut_through(b.val.body).ok
        /\ sent' = [kind |-> "block", val |-> b.val]
        /\ UNCHANGED <<wire, now, rd>>
        /\ UNCHANGED blockVars

\* a peer sends the bytes of a block with a version that is not the one of
\* its height
ForgeVersion ==
    /\ wire # <<>>
    /\ rd = NoRes
    /\ sent.kind = "block"
    /\ wire' = [wire EXCEPT ![1] = @ + 1]
    /\ sent' = [kind |-> "forged_block", val |-> sent.val]
    /\ UNCHANGED <<now, rd>>
    /\ UNCHANGED blockVars

\* ser::deserialize::<UntrustedBlock>
ReadUntrustedBlock ==
    /\ wire # <<>>
    /\ rd = NoRes
    /\ sent.kind \in {"block", "forged_block"}
    /\ rd' = [by |-> "UntrustedBlock", at |-> now, r |-> UntrustedBlock_read(wire, now)]
    /\ UNCHANGED <<wire, sent, now>>
    /\ UNCHANGED blockVars

\* util::to_hex: two hex digits for each unit written
to_hex(bytes) == [i \in DOMAIN bytes |-> <<"hh", bytes[i]>>]

\* util::from_hex: fails on a character that is not a hex digit
from_hex(str) ==
    IF \A i \in DOMAIN str : Len(str[i]) = 2 /\ str[i][1] = "hh"
    THEN Ok([i \in DOMAIN str |-> str[i][2]])
    ELSE Err(<<"HexError">>, 0)

\* impl From<ser::Error> for Error
FromSer(r) == Err(<<"Serialization">> \o r.err.path, r.err.arg)

\* from_pre_pow_and_proof that takes the header's fields without reading them
BlockHeader_from_pre_pow_and_proof_unread(h, pre_pow, nonce, proof) ==
    IF ~from_hex(pre_pow).ok THEN FromSer(from_hex(pre_pow)) ELSE Ok(h)

\* BlockHeader::from_pre_pow_and_proof; h is the header the caller holds
BlockHeader_from_pre_pow_and_proof(h, pre_pow, nonce, proof) ==
    LET deserialize(header_bytes) ==
            LET r == BlockHeader_read(header_bytes)
            IN  IF r.ok THEN Ok(r.val.val) ELSE FromSer(r)
        append(bytes) ==
            IF ~bytes.ok THEN FromSer(bytes)
            ELSE deserialize(bytes.val \o <<nonce>> \o Proof_write(proof))
    IN  append(from_hex(pre_pow))

\* the strings a miner hands back: the pre-pow of the header without the
\* nonce (tests/block.rs 790-796), the same cut short, and strings with a
\* character that is not a hex digit
PrePowKinds == {"pre_pow", "short", "not_hex", "not_hex_tail"}

PrePowString(h, kind) ==
    LET good == to_hex(BlockHeader_write_pre_pow(h) \o ProofOfWork_write_pre_pow(h.pow))
    IN  CASE kind = "pre_pow" -> good
          [] kind = "short" -> SubSeq(good, 1, 3)
          [] kind = "not_hex" -> <<<<"x">>>> \o SubSeq(good, 1, 3)
          [] kind = "not_hex_tail" -> good \o <<<<"x">>>>

\* BlockHeader::from_pre_pow_and_proof with the nonce and the proof of the
\* header the miner worked on
Reconstruct(kind) ==
    /\ sent # NoRes
    /\ sent.kind = "header"
    /\ rd = NoRes
    /\ rd' = [by |-> "from_pre_pow_and_proof", at |-> now, kind |-> kind,
              r |-> BlockHeader_from_pre_pow_and_proof(
                        sent.val, PrePowString(sent.val, kind),
                        sent.val.pow.nonce, sent.val.pow.proof)]
    /\ UNCHANGED <<wire, sent, now>>
    /\ UNCHANGED blockVars

\* the clock advances by half a second
Tick ==
    /\ rd = NoRes
    /\ now.secs * 2 + (IF now.nanos = 0 THEN 0 ELSE 1) < Clock0.secs * 2 + ClockTicks
    /\ now' = IF now.nanos = 0 THEN DateTime(now.secs, 500) ELSE DateTime(now.secs + 1, 0)
    /\ UNCHANGED <<wire, sent, rd>>
    /\ UNCHANGED blockVars

\* the connection is done with the message
Drop ==
    /\ rd # NoRes
    /\ wire' = <<>>
    /\ sent' = NoRes
    /\ rd' = NoRes
    /\ UNCHANGED now
    /\ UNCHANGED blockVars

NextWire ==
    \/ \E v \in VersionChoices, h \in HeightChoices, t \in TimestampChoices,
          n \in NanosChoices, e \in EdgeBitsChoices, l \in ProofLenChoices :
            MakeHeader(v, h, t, n, e, l)
    \/ MakeDefaultHeader
    \/ \E s \in TxChoices : MakeBlock(s)
    \/ Serialize
    \/ \E ts \in {MIN_DATE_TS - 1, MAX_DATE_TS + 1} : ForgeTimestamp(ts)
    \/ ReadHeader
    \/ ReadUntrustedHeader
    \/ ReadBlock
    \/ \E s \in TxChoices : MakeUncutBlock(s)
    \/ ForgeVersion
    \/ ReadUntrustedBlock
    \/ \E kind \in PrePowKinds : Reconstruct(kind)
    \/ Tick
    \/ Drop

SpecWire == Init /\ [][NextWire]_vars

----------------------------------------------------------------------------
(* Properties of the wire                                                  *)

CorruptedData == Err(<<"CorruptedData">>, 0)
InvalidBlockVersion == Err(<<"InvalidBlockVersion">>, 0)

\* an untrusted read of bytes that parse as a header
UntrustedRead == rd # NoRes /\ rd.by = "UntrustedBlockHeader" /\ read_block_header(wire).ok
Parsed == read_block_header(wire).val.val
TooLate == DateTime_gt(Parsed.timestamp, plus_seconds(rd.at, 12 * BLOCK_TIME_SEC))
VersionOk == valid_header_version(Parsed.height, Parsed.version)
PowFormOk == ProofOfWork_is_primary(Parsed.pow) \/ ProofOfWork_is_secondary(Parsed.pow)
SizeOk == verify_size(Parsed).ok

\* C7 as stated: every header the untrusted read rejects is rejected with the
\* one corrupted-data error.
C7_AsStated ==
    (rd # NoRes /\ rd.by = "UntrustedBlockHeader" /\ ~rd.r.ok) => rd.r = CorruptedData

\* C7: a header rejected for its timestamp, for the form of its proof of
\* work or by verify_size is rejected with CorruptedData, and a header
\* rejected for its version is rejected with InvalidBlockVersion, which a
\* peer can tell from the others.
C7_UntrustedErrors ==
    /\ (rd # NoRes /\ rd.by = "UntrustedBlockHeader" /\ ~rd.r.ok) =>
            rd.r \in {CorruptedData, InvalidBlockVersion}
    /\ (UntrustedRead /\ ~rd.r.ok) =>
            /\ rd.r = InvalidBlockVersion <=> (~TooLate /\ ~VersionOk)
            /\ (TooLate \/ (VersionOk /\ (~PowFormOk \/ ~SizeOk))) => rd.r = CorruptedData
    /\ InvalidBlockVersion # CorruptedData

\* a header was rejected for its version
C7_Witness ==
    /\ UntrustedRead
    /\ ~VersionOk
    /\ rd.r = InvalidBlockVersion

\* C8: the untrusted read accepts a header exactly when its timestamp is at
\* most twelve block intervals after now, its version is valid for its
\* height, its proof of work is primary or secondary and verify_size
\* succeeds; the timestamp is checked before the version and the version
\* before the proof of work, and a timestamp exactly twelve intervals ahead
\* is accepted.
C8_UntrustedAccepts ==
    UntrustedRead =>
        /\ rd.r.ok <=> (~TooLate /\ VersionOk /\ PowFormOk /\ SizeOk)
        /\ rd.r.ok => rd.r.val.val = Parsed
        /\ (TooLate /\ ~VersionOk) => rd.r = CorruptedData
        /\ (~TooLate /\ ~VersionOk /\ (~PowFormOk \/ ~SizeOk)) => rd.r = InvalidBlockVersion
        /\ (/\ Parsed.timestamp = plus_seconds(rd.at, 12 * BLOCK_TIME_SEC)
            /\ VersionOk /\ PowFormOk /\ SizeOk) => rd.r.ok

\* a header stamped exactly twelve intervals ahead was accepted
C8_Witness ==
    /\ UntrustedRead
    /\ rd.r.ok
    /\ Parsed.timestamp = plus_seconds(rd.at, 12 * BLOCK_TIME_SEC)

\* a header stamped a second later was rejected
C8_WitnessLate ==
    /\ UntrustedRead
    /\ ~rd.r.ok
    /\ VersionOk /\ PowFormOk /\ SizeOk
    /\ Parsed.timestamp.secs = rd.at.secs + 12 * BLOCK_TIME_SEC + 1

\* the fields of a header in the order of the wire
FieldOrder(h) ==
    <<h.version, h.height, h.timestamp.secs, h.prev_hash, h.prev_root, h.output_root,
      h.range_proof_root, h.kernel_root, h.issue_root, h.total_kernel_offset,
      h.output_mmr_size, h.kernel_mmr_size, h.issue_mmr_size, h.total_issue_overage>>

\* C9: a header with a timestamp in whole seconds and a block read back from
\* their serialization are the header and the block that were written, with
\* the same hash; the header is written and read field by field in the order
\* version, height, timestamp, prev_hash, prev_root, output_root,
\* range_proof_root, kernel_root, issue_root, total_kernel_offset,
\* output_mmr_size, kernel_mmr_size, issue_mmr_size, total_issue_overage and
\* then the proof of work.
C9_RoundTrip ==
    /\ (sent # NoRes /\ sent.kind = "header" /\ wire # <<>>) =>
            /\ wire = FieldOrder(sent.val) \o ProofOfWork_write(sent.val.pow)
            /\ BlockHeader_write_pre_pow(sent.val) = FieldOrder(sent.val)
    /\ (rd # NoRes /\ rd.by = "BlockHeader" /\ rd.r.ok) =>
            /\ FieldOrder(rd.r.val.val) = SubSeq(wire, 1, 14)
            /\ ProofOfWork_write(rd.r.val.val.pow)
                    = SubSeq(wire, 15, Len(wire) - Len(rd.r.val.reader))
    /\ (rd # NoRes /\ rd.by = "BlockHeader" /\ sent.kind = "header"
            /\ sent.val.timestamp.nanos = 0) =>
            /\ rd.r.ok
            /\ rd.r.val.val = sent.val
            /\ BlockHeader_hash(rd.r.val.val) = BlockHeader_hash(sent.val)
            /\ BlockHeader_write(rd.r.val.val, "Full") = wire
    /\ (rd # NoRes /\ rd.by = "Block") =>
            /\ rd.r.ok
            /\ Block_hash(rd.r.val.val) = Block_hash(sent.val)
            /\ rd.r.val.val.header = sent.val.header
            /\ rd.r.val.val.body.inputs = sent.val.body.inputs
            /\ rd.r.val.val.body.outputs = sent.val.body.outputs
            /\ rd.r.val.val.body.kernels = sent.val.body.kernels
            /\ Block_write(rd.r.val.val, "Full") = wire

\* a header whose fields all differ was read back
C9_Witness ==
    /\ rd # NoRes
    /\ rd.by = "BlockHeader"
    /\ sent.kind = "header"
    /\ sent.val.timestamp.nanos = 0
    /\ sent.val.output_mmr_size # sent.val.kernel_mmr_size
    /\ rd.r.ok
    /\ rd.r.val.val = sent.val

\* a block with inputs, outputs and kernels was read back
C9_WitnessBlock ==
    /\ rd # NoRes
    /\ rd.by = "Block"
    /\ rd.r.ok
    /\ sent.val.body.inputs # <<>>
    /\ Len(sent.val.body.kernels) > 1
    /\ rd.r.val.val = sent.val

----------------------------------------------------------------------------
(* Asset actions and issued-asset records (core/src/core/issued_asset.rs)  *)

\* a u64 is held as four 16-bit limbs, most significant first, so that all
\* 64 bits are representable
u64(n) == <<0, 0, (n \div 65536) % 65536, n % 65536>>

\* u64::to_le_bytes
u64_to_le_bytes(x) ==
    <<x[4] % 256, x[4] \div 256, x[3] % 256, x[3] \div 256,
      x[2] % 256, x[2] \div 256, x[1] % 256, x[1] \div 256>>

\* u64::to_be_bytes
u64_to_be_bytes(x) ==
    <<x[1] \div 256, x[1] % 256, x[2] \div 256, x[2] % 256,
      x[3] \div 256, x[3] % 256, x[4] \div 256, x[4] % 256>>

\* u64::from_be_bytes
u64_from_be_bytes(b) ==
    <<b[1] * 256 + b[2], b[3] * 256 + b[4], b[5] * 256 + b[6], b[7] * 256 + b[8]>>

\* PublicKey::serialize_vec(secp, true): the parity byte and the 32-byte x
PublicKey_serialize_vec(pk) ==
    <<2 + (pk % 2)>> \o [i \in 1..32 |-> IF i = 32 THEN pk \div 2 ELSE 0]

\* PublicKey::from_slice of a compressed key
PublicKey_from_slice(b) ==
    IF Len(b) = 33 /\ b[1] \in {2, 3} /\ \A i \in 2..32 : b[i] = 0
    THEN Ok(2 * b[33] + (b[1] - 2))
    ELSE Err(<<"InvalidPublicKey">>, 0)

\* Asset::to_bytes: the 64 bytes of the generator
Asset_to_bytes(a) == [i \in 1..64 |-> IF i = 64 THEN a ELSE 0]

\* Asset::from_bytes
Asset_from_bytes(b) == IF \A i \in 1..63 : b[i] = 0 THEN b[64] ELSE b

\* impl Writeable for IssuedAsset
IssuedAsset_write(r) ==
    u64_to_le_bytes(r.supply)
        \o PublicKey_serialize_vec(r.owner)
        \o (IF r.mintable THEN <<1>> ELSE <<0>>)
        \o Asset_to_bytes(r.asset)

\* impl Readable for IssuedAsset
IssuedAsset_read(reader) ==
    IF Len(reader) < 106 THEN Err(<<"IOErr">>, 0)
    ELSE LET vec == SubSeq(reader, 1, 106)
             owner == PublicKey_from_slice(SubSeq(vec, 9, 41))
         IN  IF ~owner.ok THEN Err(<<"IOErr">>, 0)
             ELSE Ok([val |-> [supply |-> u64_from_be_bytes(SubSeq(vec, 1, 8)),
                               owner |-> owner.val,
                               mintable |-> (vec[42] = 1),
                               asset |-> Asset_from_bytes(SubSeq(vec, 43, 106))],
                      reader |-> SubSeq(reader, 107, Len(reader))])

\* PMMRable for IssuedAsset: elmt_size
IssuedAsset_elmt_size == 106

\* the inputs of the asset exchanges
ActionKinds == {"New", "Issue", "Withdraw"}
ActionAssets == {3, 4}
ActionAmounts == {5, 100}
ActionKeys == {41, 42}
SupplyChoices == {u64(0), u64(1), u64(100), u64(256), u64(65536 * 3 + 7),
                  <<1, 0, 0, 256>>, <<25600, 0, 0, 0>>,
                  <<65535, 65535, 65535, 65535>>}
MaxRecords == 2

\* an action of the given kind whose signature was made by `signer` over
\* the payload of an action for `signed` units
sign_action(kind, asset, amount, owner, signer, signed) ==
    IF kind = "New"
    THEN [kind |-> kind, asset |-> asset, amount |-> amount,
          issued |-> IssuedAsset_new(amount, owner, FALSE, asset),
          sig |-> Sign(signer, AssetAction_payload(
                      [kind |-> kind, asset |-> asset, amount |-> signed,
                       issued |-> IssuedAsset_new(signed, owner, FALSE, asset)]))]
    ELSE [kind |-> kind, asset |-> asset, amount |-> amount,
          sig |-> Sign(signer, AssetAction_payload(
                      [kind |-> kind, asset |-> asset, amount |-> signed]))]

\* somebody holds an asset action, signed by the owner or not
SignAction(kind, asset, amount, owner, signer, signed) ==
    /\ sent = NoRes
    /\ sent' = [kind |-> "action",
                val |-> sign_action(kind, asset, amount, owner, signer, signed)]
    /\ UNCHANGED <<wire, now, rd>>
    /\ UNCHANGED blockVars

\* AssetAction::validate on the action held
ValidateAction ==
    /\ sent # NoRes
    /\ sent.kind = "action"
    /\ rd = NoRes
    /\ rd' = [by |-> "validate", at |-> now, r |-> AssetAction_validate(sent.val)]
    /\ UNCHANGED <<wire, sent, now>>
    /\ UNCHANGED blockVars

\* the action held with its signature moved to an action of another kind
\* (Issue and Withdraw) for another asset
replay_action(a, kind, asset) ==
    IF a.kind = "New" THEN [a EXCEPT !.asset = asset]
    ELSE [a EXCEPT !.kind = kind, !.asset = asset]

\* AssetAction::valid(pk) on the action held and on the action that carries
\* the same signature for another asset
ValidAction(pk, kind, asset) ==
    /\ sent # NoRes
    /\ sent.kind = "action"
    /\ rd = NoRes
    /\ rd' = [by |-> "valid", at |-> now, pk |-> pk,
              r |-> AssetAction_valid(sent.val, pk),
              replay |-> replay_action(sent.val, kind, asset),
              replayed |-> AssetAction_valid(replay_action(sent.val, kind, asset), pk)]
    /\ UNCHANGED <<wire, sent, now>>
    /\ UNCHANGED blockVars

\* the record of a newly issued asset
MakeIssued(supply, owner, mintable, asset) ==
    /\ sent = NoRes
    /\ sent' = [kind |-> "issued", val |-> IssuedAsset_new(supply, owner, mintable, asset)]
    /\ UNCHANGED <<wire, now, rd>>
    /\ UNCHANGED blockVars

\* n records one after the other, as in the data file of the issue MMR
RECURSIVE write_records(_, _)
write_records(r, n) ==
    IF n = 0 THEN <<>> ELSE IssuedAsset_write(r) \o write_records(r, n - 1)

\* the record is appended n times to the data of the issue MMR
WriteIssued(n) ==
    /\ sent # NoRes
    /\ sent.kind = "issued"
    /\ wire = <<>>
    /\ wire' = write_records(sent.val, n)
    /\ UNCHANGED <<sent, now, rd>>
    /\ UNCHANGED blockVars

\* the first record of the data is read back
ReadIssued ==
    /\ wire # <<>>
    /\ rd = NoRes
    /\ rd' = [by |-> "IssuedAsset", at |-> now, r |-> IssuedAsset_read(wire)]
    /\ UNCHANGED <<wire, sent, now>>
    /\ UNCHANGED blockVars

----------------------------------------------------------------------------
(* Ownership of a standard asset (core/src/core/standard_asset.rs)         *)

\* enum AssetOwner
Coinbase == [kind |-> "Coinbase"]
Owner(pk) == [kind |-> "Owner", pk |-> pk]

\* StandardAsset::new
StandardAsset_new(total_supply, owner, symbol, name) ==
    [total_supply |-> total_supply, owner |-> owner, symbol |-> symbol, name |-> name]

\* StandardAsset::change_owner_message: 32 zero bytes, whatever new_pk is
change_owner_message(a, new_pk) == [i \in 1..32 |-> 0]

\* StandardAsset::change_owner: the value returned and the asset afterwards
change_owner(a, new_pk, sign) ==
    IF a.owner.kind = "Coinbase" THEN [ret |-> FALSE, asset |-> a]
    ELSE IF Verify(change_owner_message(a, new_pk), sign, a.owner.pk)
    THEN [ret |-> TRUE, asset |-> [a EXCEPT !.owner = Owner(new_pk)]]
    ELSE [ret |-> FALSE, asset |-> a]

OwnerKeys == {41, 42, 43}
OwnerChoices == {Coinbase} \cup {Owner(pk) : pk \in OwnerKeys}
TotalSupplyChoices == {[kind |-> "Mutable", n |-> 1000], [kind |-> "Immutable", n |-> 21]}

\* an asset is registered with its first owner
MakeStandard(total_supply, owner) ==
    /\ sent = NoRes
    /\ sent' = [kind |-> "standard",
                val |-> StandardAsset_new(total_supply, owner, "BTC", "Bitcoin")]
    /\ UNCHANGED <<wire, now, rd>>
    /\ UNCHANGED blockVars

\* change_owner(new_pk, sign) where `signer` made the signature to hand the
\* asset to `intended`
ChangeOwner(new_pk, signer, intended) ==
    /\ sent # NoRes
    /\ sent.kind = "standard"
    /\ \E sign \in {Sign(signer, change_owner_message(sent.val, intended))} :
        \E c \in {change_owner(sent.val, new_pk, sign)} :
            /\ rd' = [by |-> "change_owner", at |-> now, before |-> sent.val,
                      new_pk |-> new_pk, sign |-> sign, intended |-> intended,
                      r |-> c.ret]
            /\ sent' = [sent EXCEPT !.val = c.asset]
    /\ UNCHANGED <<wire, now>>
    /\ UNCHANGED blockVars

NextAsset ==
    \/ \E kind \in ActionKinds, asset \in ActionAssets, amount \in ActionAmounts,
          owner \in ActionKeys, signer \in ActionKeys, signed \in ActionAmounts :
            SignAction(kind, asset, amount, owner, signer, signed)
    \/ ValidateAction
    \/ \E pk \in ActionKeys, kind \in {"Issue", "Withdraw"}, asset \in ActionAssets :
            ValidAction(pk, kind, asset)
    \/ \E supply \in SupplyChoices, owner \in ActionKeys, mintable \in BOOLEAN,
          asset \in ActionAssets :
            MakeIssued(supply, owner, mintable, asset)
    \/ \E n \in 1..MaxRecords : WriteIssued(n)
    \/ ReadIssued
    \/ \E total_supply \in TotalSupplyChoices, owner \in OwnerChoices :
            MakeStandard(total_supply, owner)
    \/ \E new_pk \in OwnerKeys, signer \in OwnerKeys, intended \in OwnerKeys :
            ChangeOwner(new_pk, signer, intended)
    \/ Drop

SpecAsset == Init /\ [][NextAsset]_vars

----------------------------------------------------------------------------
(* Properties of asset actions                                             *)

\* the record a New action carries, as the bytes its signature must cover
IssuedPayload(i) == <<"issued", i.supply, i.owner, i.mintable, i.asset>>

\* C18: AssetAction::validate authenticates exactly the New actions: a New
\* action validates if and only if its signature is the owner's signature
\* over the issued-asset record it carries, and an Issue or a Withdraw
\* action validates whatever its signature is
C18_ValidateNewOnly ==
    (rd # NoRes /\ rd.by = "validate") =>
        IF sent.val.kind = "New"
        THEN rd.r = (/\ sent.val.sig.key = sent.val.issued.owner
                     /\ sent.val.sig.msg = IssuedPayload(sent.val.issued))
        ELSE rd.r = TRUE

\* a New action signed with another key than the owner's was rejected
C18_Witness ==
    /\ rd # NoRes
    /\ rd.by = "validate"
    /\ sent.val.kind = "New"
    /\ sent.val.sig.key # sent.val.issued.owner
    /\ sent.val.sig.msg = IssuedPayload(sent.val.issued)
    /\ rd.r = FALSE

\* a New action signed by its owner was accepted
C18_WitnessOwner ==
    /\ rd # NoRes
    /\ rd.by = "validate"
    /\ sent.val.kind = "New"
    /\ sent.val.sig = Sign(sent.val.issued.owner, IssuedPayload(sent.val.issued))
    /\ rd.r = TRUE

\* an Issue action whose signature covers another amount was accepted
C18_WitnessIssue ==
    /\ rd # NoRes
    /\ rd.by = "validate"
    /\ sent.val.kind = "Issue"
    /\ sent.val.sig.msg # <<"u64", sent.val.amount>>
    /\ rd.r = TRUE

----------------------------------------------------------------------------
(* Properties of the issued-asset record                                   *)

\* a record was written and nothing else holds the wire
IssuedWritten == sent # NoRes /\ sent.kind = "issued" /\ wire # <<>>

\* a record was written and read back
IssuedRead == IssuedWritten /\ rd # NoRes /\ rd.by = "IssuedAsset"

\* the number of bytes the read took from the wire
BytesRead == Len(wire) - Len(rd.r.val.reader)

\* C19: the wire encoding of an IssuedAsset is a fixed 114-byte record: a
\* 16-byte big-endian supply, the 33-byte compressed owner key, a 1-byte
\* mintable flag (0 or 1) and the 64-byte asset; the bytes written, the bytes
\* read and the declared MMR element size are all equal
C19_AsStated ==
    /\ IssuedWritten =>
        /\ Len(IssuedAsset_write(sent.val)) = 114
        /\ IssuedAsset_write(sent.val) =
              [i \in 1..8 |-> 0] \o u64_to_be_bytes(sent.val.supply)
                  \o PublicKey_serialize_vec(sent.val.owner)
                  \o (IF sent.val.mintable THEN <<1>> ELSE <<0>>)
                  \o Asset_to_bytes(sent.val.asset)
        /\ IssuedAsset_elmt_size = Len(IssuedAsset_write(sent.val))
    /\ IssuedRead =>
        /\ rd.r.ok
        /\ BytesRead = Len(IssuedAsset_write(sent.val))

\* what the code does instead: a record of 106 bytes whose first 8 bytes are
\* the supply, least significant byte first; written, read and declared
\* sizes agree on 106
C19_CodeRecord ==
    /\ IssuedWritten =>
        /\ Len(IssuedAsset_write(sent.val)) = 106
        /\ SubSeq(wire, 1, 8) = u64_to_le_bytes(sent.val.supply)
        /\ SubSeq(wire, 9, 41) = PublicKey_serialize_vec(sent.val.owner)
        /\ wire[42] = (IF sent.val.mintable THEN 1 ELSE 0)
        /\ SubSeq(wire, 43, 106) = Asset_to_bytes(sent.val.asset)
        /\ IssuedAsset_elmt_size = 106
    /\ IssuedRead => rd.r.ok /\ BytesRead = 106

\* C20: reading the bytes produced by writing an IssuedAsset yields a record
\* equal to the one written; in particular the supply is read back with the
\* value it was written with
C20_AsStated ==
    IssuedRead =>
        /\ rd.r.ok
        /\ rd.r.val.val.supply = sent.val.supply
        /\ rd.r.val.val = sent.val

\* what the code does instead: owner, flag and asset are read back, and the
\* supply comes back with its eight bytes in the opposite order
C20_CodeRoundTrip ==
    IssuedRead =>
        /\ rd.r.ok
        /\ rd.r.val.val.owner = sent.val.owner
        /\ rd.r.val.val.mintable = sent.val.mintable
        /\ rd.r.val.val.asset = sent.val.asset
        /\ u64_to_be_bytes(rd.r.val.val.supply) = u64_to_le_bytes(sent.val.supply)

\* a supply of 100 was written and read back as 100 * 2^56
C20_Swapped ==
    /\ IssuedRead
    /\ sent.val.supply = u64(100)
    /\ rd.r.val.val.supply = <<25600, 0, 0, 0>>

----------------------------------------------------------------------------
(* Properties of the ownership of a standard asset                         *)

OwnerChanged == rd # NoRes /\ rd.by = "change_owner"

\* C21: change_owner(new_pk, sig) returns true and sets the owner to new_pk
\* only if the current owner is Owner(pk) and sig is pk's signature made to
\* hand the asset to new_pk, so that a signature made for one new owner does
\* not authorize a change to another; otherwise it returns false and leaves
\* the owner unchanged; total_supply, symbol and name are never modified
C21_AsStated ==
    OwnerChanged =>
        /\ rd.r = (/\ rd.before.owner.kind = "Owner"
                   /\ rd.sign.key = rd.before.owner.pk
                   /\ rd.intended = rd.new_pk)
        /\ sent.val.owner = (IF rd.r THEN Owner(rd.new_pk) ELSE rd.before.owner)
        /\ sent.val.total_supply = rd.before.total_supply
        /\ sent.val.symbol = rd.before.symbol
        /\ sent.val.name = rd.before.name

\* what the code does instead: the current owner's signature hands the asset
\* to any new owner, whoever it was made for
C21_CodeChangeOwner ==
    OwnerChanged =>
        /\ rd.r = (/\ rd.before.owner.kind = "Owner"
                   /\ rd.sign.key = rd.before.owner.pk)
        /\ sent.val.owner = (IF rd.r THEN Owner(rd.new_pk) ELSE rd.before.owner)
        /\ sent.val.total_supply = rd.before.total_supply
        /\ sent.val.symbol = rd.before.symbol
        /\ sent.val.name = rd.before.name

\* the owner's signature made for key 42 handed the asset to key 43
C21_Redirected ==
    /\ OwnerChanged
    /\ rd.r
    /\ rd.intended = 42
    /\ rd.new_pk = 43
    /\ sent.val.owner = Owner(43)

----------------------------------------------------------------------------
(* Coinbase maturity on the harness chain (chain/tests/test_issue_assets.rs) *)

MaxChain == 6          \* blocks mined on the harness chain

\* global::coinbase_maturity() in automated testing
coinbase_maturity == 3

\* the key of the reward of the block mined at a height (Harness::next_key_id)
HarnessKey(height) == 100 + 2 * height

\* Harness::build_spend_coinbase_tx: the coinbase kept under `key` is spent
\* into an output under a key taken when the transaction is built
build_spend_coinbase_tx(key, out_key) ==
    build_transaction("Plain", 2, 0,
                      <<build_coinbase_input(reward(1, 0), key)>>,
                      <<build_output(reward(1, 0) - 2, out_key, NativeAsset)>>, <<>>, 0)

\* a maturity check that counts the block being built as a confirmation
Chain_verify_coinbase_maturity_next(tx, out_height, head_height) ==
    IF \E i \in DOMAIN tx.body.inputs : tx.body.inputs[i].features = "Coinbase"
    THEN IF (head_height + 1 - out_height) + 1 < coinbase_maturity + 1
         THEN Err(<<"ImmatureCoinbase">>, 0)
         ELSE Ok(Unit)
    ELSE Ok(Unit)

\* Chain::verify_coinbase_maturity: a coinbase output of the block at
\* out_height is spent while the head is at head_height
Chain_verify_coinbase_maturity(tx, out_height, head_height) ==
    IF \E i \in DOMAIN tx.body.inputs : tx.body.inputs[i].features = "Coinbase"
    THEN IF (head_height - out_height) + 1 < coinbase_maturity + 1
         THEN Err(<<"ImmatureCoinbase">>, 0)
         ELSE Ok(Unit)
    ELSE Ok(Unit)

\* the head after Harness::mine_block(txs)
MinedHead(txs) ==
    LET rw == reward_output(HarnessKey(prev.height + 1), TxFees(txs), prev.height + 1)
        mined(b) == [b.val.header EXCEPT
                        !.timestamp = plus_seconds(prev.timestamp, BLOCK_TIME_SEC),
                        !.pow.proof = MinedProof]
    IN  mined(Block_from_reward(prev, txs, rw[1], rw[2], MinDifficulty, now))

\* Harness::mine_empty_block; with `track` the test keeps the reward of
\* this block to spend it later
MineEmpty(track) ==
    /\ prev.height < MaxChain
    /\ prev' = MinedHead(<<>>)
    /\ sent' = IF track
               THEN [kind |-> "coinbase",
                     val |-> [height |-> prev.height + 1,
                              key |-> HarnessKey(prev.height + 1), on_top |-> 0,
                              refused |-> NoRes]]
               ELSE IF sent = NoRes \/ sent.kind = "spent" THEN sent
               ELSE [sent EXCEPT !.val.on_top = @ + 1]
    /\ UNCHANGED <<concVars, block, orig, op, res, resOrig, tampered, wire, now, rd, compact,
                   picked, ledger>>

\* Harness::verify_coinbase_maturity on the reward the test kept; the test
\* remembers the transaction the chain refused
VerifyMaturity ==
    /\ sent # NoRes
    /\ sent.kind = "coinbase"
    /\ \E tx \in {build_spend_coinbase_tx(sent.val.key, HarnessKey(prev.height + 1) + 1)} :
        \E m \in {Chain_verify_coinbase_maturity(tx, sent.val.height, prev.height)} :
            /\ rd' = [by |-> "verify_coinbase_maturity", at |-> now, tx |-> tx,
                      on_top |-> sent.val.on_top, r |-> m]
            /\ sent' = IF m.ok THEN sent ELSE [sent EXCEPT !.val.refused = tx]
    /\ UNCHANGED <<concVars, prev, block, orig, op, res, resOrig, tampered, wire, now,
                   compact, picked, ledger>>

\* Harness::spend_coinbase: a block with the spending transaction is mined
\* and processed; the chain refuses it while the coinbase is immature
SpendCoinbase ==
    /\ sent # NoRes
    /\ sent.kind = "coinbase"
    /\ prev.height < MaxChain
    /\ \E tx \in {build_spend_coinbase_tx(sent.val.key, HarnessKey(prev.height + 1) + 1)} :
        \E m \in {Chain_verify_coinbase_maturity(tx, sent.val.height, prev.height)} :
            /\ rd' = [by |-> "process_block", at |-> now, tx |-> tx,
                      on_top |-> sent.val.on_top, r |-> m]
            /\ prev' = IF m.ok THEN MinedHead(<<tx>>) ELSE prev
            /\ sent' = IF m.ok THEN [kind |-> "spent", val |-> sent.val]
                       ELSE [sent EXCEPT !.val.refused = tx]
    /\ UNCHANGED <<concVars, block, orig, op, res, resOrig, tampered, wire, now, compact,
                   picked, ledger>>

NextMaturity ==
    \/ \E track \in BOOLEAN : MineEmpty(track)
    \/ VerifyMaturity
    \/ SpendCoinbase

SpecMaturity == Init /\ [][NextMaturity]_vars

----------------------------------------------------------------------------
(* Properties of coinbase maturity                                         *)

MaturityChecked ==
    rd # NoRes /\ rd.by \in {"verify_coinbase_maturity", "process_block"}

C22_WitnessImmature ==
    /\ MaturityChecked
    /\ sent # NoRes
    /\ sent.val.height = 1
    /\ rd.on_top = 2
    /\ prev.height = 3
    /\ rd.r = Err(<<"ImmatureCoinbase">>, 0)

----------------------------------------------------------------------------
(* Properties of the header rebuilt from a miner's answer                  *)

Reconstructed == rd # NoRes /\ rd.by = "from_pre_pow_and_proof"

\* C24, as stated: for every header h, from_pre_pow_and_proof of the hex of
\* h's pre-pow bytes, h's nonce and h's proof returns a header equal to h,
\* and a string that is not valid hex returns a Serialization error
C24_AsStated ==
    Reconstructed =>
        /\ rd.kind = "pre_pow" => rd.r = Ok(sent.val)
        /\ rd.kind \in {"not_hex", "not_hex_tail"} =>
                rd.r = Err(<<"Serialization", "HexError">>, 0)

\* C24: for every header h whose timestamp is in whole seconds,
\* from_pre_pow_and_proof of the hex of h's pre-pow bytes, h's nonce and h's
\* proof returns a header equal to h; for any header it returns h with the
\* timestamp cut to the second; a string that is not valid hex returns a
\* Serialization error
C24_FromPrePow ==
    Reconstructed =>
        /\ (rd.kind = "pre_pow" /\ sent.val.timestamp.nanos = 0) => rd.r = Ok(sent.val)
        /\ rd.kind = "pre_pow" =>
                rd.r = Ok([sent.val EXCEPT
                            !.timestamp = from_timestamp(timestamp_of(sent.val.timestamp))])
        /\ rd.kind \in {"not_hex", "not_hex_tail"} =>
                rd.r = Err(<<"Serialization", "HexError">>, 0)

\* a header with fields that all differ was rebuilt from its pre-pow
C24_Witness ==
    /\ Reconstructed
    /\ rd.kind = "pre_pow"
    /\ sent.val.timestamp.nanos = 0
    /\ sent.val.pow.nonce # 0
    /\ sent.val.output_mmr_size # sent.val.kernel_mmr_size
    /\ rd.r = Ok(sent.val)

\* a string with a character that is not a hex digit gave an error
C24_WitnessNotHex ==
    /\ Reconstructed
    /\ rd.kind = "not_hex_tail"
    /\ ~rd.r.ok

\* a header with half a second in its timestamp came back without it
C24_WitnessNanos ==
    /\ Reconstructed
    /\ rd.kind = "pre_pow"
    /\ sent.val.timestamp.nanos # 0
    /\ rd.r.ok
    /\ rd.r.val # sent.val

----------------------------------------------------------------------------
(* Properties of the order of the checks in Block::validate                *)

\* the checks of validate in the order of the claim, each on its own with
\* the error validate would report for it
ValidateStages(b, prevh) ==
    LET body == TransactionBody_validate(b.body)
        m == Block_mint_overage(b)
        off == Block_block_kernel_offset(b, prevh.total_kernel_offset)
        sums == Block_verify_kernel_sums(b, BlockHeader_overage(b.header), m.val, off.val)
    IN  << IF body.ok THEN body ELSE FromTransaction(body),
           Block_verify_kernel_lock_heights(b),
           Block_verify_coinbase(b),
           m,
           IF ~m.ok THEN Ok(Unit)
           ELSE IF ~off.ok THEN off
           ELSE IF ~sums.ok THEN FromCommitted(sums)
           ELSE Ok(Unit) >>

FailingStages(st) == {i \in 1..5 : ~st[i].ok}

FirstFailing(st) ==
    CHOOSE i \in FailingStages(st) : \A j \in FailingStages(st) : i <= j

BadKernelSignature(b) == \E i \in DOMAIN b.body.kernels : ~Kernel_verify(b.body.kernels[i])

C25_WitnessSumsOk ==
    /\ res # NoRes
    /\ res.verify_coinbase = Err(<<"CoinbaseSumMismatch">>, 0)
    /\ res.kernel_sums.ok
    /\ res.validate = Err(<<"CoinbaseSumMismatch">>, 0)

\* a block fails verify_coinbase and its kernel sums
C25_WitnessSumsFail ==
    /\ res # NoRes
    /\ res.verify_coinbase = Err(<<"CoinbaseSumMismatch">>, 0)
    /\ ~res.kernel_sums.ok
    /\ res.validate = Err(<<"CoinbaseSumMismatch">>, 0)

\* a block fails a lock height and verify_coinbase: the lock height is reported
C25_WitnessLock ==
    /\ res # NoRes
    /\ ~ValidateStages(block, prev)[2].ok
    /\ ~res.verify_coinbase.ok
    /\ res.validate = ValidateStages(block, prev)[2]

\* a block passes body and lock heights and fails verify_coinbase with an
\* error of the curve library: that error is reported
C25_WitnessSecp ==
    /\ res # NoRes
    /\ ValidateStages(block, prev)[1].ok
    /\ ValidateStages(block, prev)[2].ok
    /\ res.verify_coinbase = IncorrectCommitSum
    /\ res.validate = IncorrectCommitSum

----------------------------------------------------------------------------
(* Properties of Block::cut_through                                        *)

CutThroughDone == op = "cut_through"

\* the positions of item x in sequence s
Positions(s, x) == {i \in DOMAIN s : s[i] = x}

\* the items of kept keep, in kept, the relative order they have in before
SameRelativeOrder(before, kept) ==
    \A i, j \in DOMAIN kept :
        i < j => \E p \in Positions(before, kept[i]), q \in Positions(before, kept[j]) :
                    p < q \/ kept[i] = kept[j]

\* C26: after cut_through the remaining inputs and outputs appear in the
\* same relative order they had in the block passed in, and cut_through of
\* the result returns the same block
C26_AsStated ==
    CutThroughDone =>
        /\ SameRelativeOrder(orig.body.inputs, block.body.inputs)
        /\ SameRelativeOrder(orig.body.outputs, block.body.outputs)
        /\ Block_cut_through(block) = Ok(block)

\* a block whose outputs are not in sorted order went through cut_through
C26_Unsorted ==
    /\ CutThroughDone
    /\ ~IsSorted(orig.body.outputs)

\* what the code does: the result is the block's remaining items in sorted
\* order, so the relative order is kept when the block passed in was sorted;
\* nothing but spent outputs and their inputs is removed; cut_through of
\* the result returns the same block
C26_CodeCutThrough ==
    CutThroughDone =>
        /\ IsSorted(block.body.inputs) /\ IsSorted(block.body.outputs)
        /\ IsSorted(orig.body.inputs) =>
                SameRelativeOrder(orig.body.inputs, block.body.inputs)
        /\ IsSorted(orig.body.outputs) =>
                SameRelativeOrder(orig.body.outputs, block.body.outputs)
        /\ Range(block.body.outputs) =
                {o \in Range(orig.body.outputs) :
                    \A i \in DOMAIN orig.body.inputs : orig.body.inputs[i].commit # o.commit}
        /\ Block_cut_through(block) = Ok(block)

\* cut_through changed the order of the outputs it kept
C26_Reordered ==
    /\ CutThroughDone
    /\ Len(block.body.outputs) = Len(orig.body.outputs)
    /\ block.body.outputs # orig.body.outputs

----------------------------------------------------------------------------
(* Properties of Block::with_reward                                        *)

RewardAdded == op = "with_reward"

\* the reward handed to with_reward
GivenReward == reward_output(RewardKey + 1, Block_total_fees(orig), orig.header.height)

\* C27: after with_reward every output and kernel of the block passed in is
\* still present together with the reward output and the reward kernel, and
\* the header, the inputs and the asset actions are unchanged
C27_AsStated ==
    RewardAdded =>
        /\ Range(orig.body.outputs) \subseteq Range(block.body.outputs)
        /\ Range(orig.body.kernels) \subseteq Range(block.body.kernels)
        /\ GivenReward[1] \in Range(block.body.outputs)
        /\ GivenReward[2] \in Range(block.body.kernels)
        /\ block.header = orig.header
        /\ block.body.inputs = orig.body.inputs
        /\ block.body.assets = orig.body.assets

\* what the code does: the outputs and kernels of the block are replaced by
\* the reward output and the reward kernel alone; the header, the inputs
\* and the asset actions are unchanged
C27_CodeWithReward ==
    RewardAdded =>
        /\ block.body.outputs = <<GivenReward[1]>>
        /\ block.body.kernels = <<GivenReward[2]>>
        /\ block.header = orig.header
        /\ block.body.inputs = orig.body.inputs
        /\ block.body.assets = orig.body.assets

\* with_reward dropped the outputs and the kernels of a block that had some
C27_Dropped ==
    /\ RewardAdded
    /\ orig.body.outputs # <<>>
    /\ orig.body.kernels # <<>>
    /\ \E i \in DOMAIN orig.body.outputs : orig.body.outputs[i] \notin Range(block.body.outputs)

\* with_reward on a block without outputs and kernels gave a block that
\* passes validation
C27_OnEmpty ==
    /\ RewardAdded
    /\ orig.body.outputs = <<>>
    /\ res # NoRes
    /\ res.verify_coinbase.ok

----------------------------------------------------------------------------
(* Properties of the untrusted read of a block                             *)

UntrustedBlockRead == rd # NoRes /\ rd.by = "UntrustedBlock"

\* the header and the body the bytes hold, read without any validation
WireHeader == read_block_header(wire)
WireBody == TransactionBody_read(WireHeader.val.reader)

\* the header checks and the body checks are answered in that order, and a
\* body that fails read validation is reported as CorruptedData
HeaderBeforeBody ==
    /\ ~UntrustedBlockHeader_read(wire, rd.at).ok =>
            rd.r = UntrustedBlockHeader_read(wire, rd.at)
    /\ (/\ UntrustedBlockHeader_read(wire, rd.at).ok
        /\ WireBody.ok
        /\ ~TransactionBody_validate_read(WireBody.val.val).ok) => rd.r = CorruptedData

\* C28, as stated: every block the untrusted read accepts satisfies
\* Block::validate_read and has no kernel locked above the header's height;
\* the header checks come before the body, and a body failing read
\* validation is reported as CorruptedData
C28_AsStated ==
    UntrustedBlockRead =>
        /\ HeaderBeforeBody
        /\ rd.r.ok =>
            /\ Block_validate_read(rd.r.val.val).ok
            /\ \A i \in DOMAIN rd.r.val.val.body.kernels :
                    rd.r.val.val.body.kernels[i].lock_height <= rd.r.val.val.header.height

\* what the code does: an accepted block passed the untrusted header checks
\* and the read validation of its body, which does not look at lock
\* heights; Block::validate_read of it fails only with KernelLockHeight
C28_CodeUntrustedBlock ==
    UntrustedBlockRead =>
        /\ HeaderBeforeBody
        /\ rd.r.ok <=>
            /\ UntrustedBlockHeader_read(wire, rd.at).ok
            /\ WireBody.ok
            /\ TransactionBody_validate_read(WireBody.val.val).ok
        /\ rd.r.ok =>
            /\ rd.r.val.val = [header |-> WireHeader.val.val, body |-> WireBody.val.val]
            /\ \/ Block_validate_read(rd.r.val.val).ok
               \/ Block_validate_read(rd.r.val.val).err.path = <<"KernelLockHeight">>

\* the untrusted read accepted a block with a kernel locked above its height
C28_LockedAccepted ==
    /\ UntrustedBlockRead
    /\ rd.r.ok
    /\ ~Block_validate_read(rd.r.val.val).ok

\* a block whose body spends one of its own outputs was refused as corrupted
C28_BodyRefused ==
    /\ UntrustedBlockRead
    /\ UntrustedBlockHeader_read(wire, rd.at).ok
    /\ ~TransactionBody_verify_cut_through(WireBody.val.val).ok
    /\ rd.r = CorruptedData

\* a block with a bad version and a bad body was refused for its version
C28_HeaderFirst ==
    /\ UntrustedBlockRead
    /\ WireBody.ok
    /\ ~TransactionBody_validate_read(WireBody.val.val).ok
    /\ rd.r = InvalidBlockVersion

----------------------------------------------------------------------------
(* Properties of AssetAction::valid                                        *)

ValidCalled == rd # NoRes /\ rd.by = "valid"

\* C29: the verdict of valid(pk) is the verification of the signature over
\* the signed payload under pk and nothing else; the action with the same
\* payload and signature for another asset gets the same verdict; a
\* signature accepted for Issue(asset, n) is accepted for Withdraw(asset', n)
C29_ValidPayloadOnly ==
    ValidCalled =>
        /\ rd.r = Verify(AssetAction_payload(sent.val), sent.val.sig, rd.pk)
        /\ AssetAction_payload(rd.replay) = AssetAction_payload(sent.val)
        /\ rd.replay.sig = sent.val.sig
        /\ rd.replayed = rd.r
        /\ (sent.val.kind = "Issue" /\ rd.replay.kind = "Withdraw" /\ rd.r) => rd.replayed

\* a signature accepted for Issue(asset, n) was accepted for Withdraw(asset', n)
C29_Witness ==
    /\ ValidCalled
    /\ sent.val.kind = "Issue"
    /\ rd.replay.kind = "Withdraw"
    /\ rd.replay.asset # sent.val.asset
    /\ rd.replay.amount = sent.val.amount
    /\ rd.r
    /\ rd.replayed

\* a New action with its record and signature under another asset was
\* accepted as well
C29_WitnessNew ==
    /\ ValidCalled
    /\ sent.val.kind = "New"
    /\ rd.replay.asset # sent.val.asset
    /\ rd.r
    /\ rd.replayed

\* a signature refused for one asset was refused for the other
C29_WitnessRefused ==
    /\ ValidCalled
    /\ rd.replay.asset # sent.val.asset
    /\ ~rd.r
    /\ ~rd.replayed

----------------------------------------------------------------------------
(* Threads calling into the block module.  Each call is the sequence of    *)
(* the instructions that touch shared state: the lazy static               *)
(* ZERO_OVERAGE_COMMITMENT ("zero"), the lock of the static secp instance  *)
(* ("lock", "unlock") and the verifier cache.  The lock is not reentrant.  *)

\* lazy_static ZERO_OVERAGE_COMMITMENT: the initializer takes the secp lock,
\* computes the commitment and drops the lock; then the Once is complete
ZERO_OVERAGE_COMMITMENT_init == <<"lock", "unlock", "once_done">>

\* BlockHeader::default reads the lazy static
BlockHeader_default_steps == <<"zero">>

\* add_issue_overage that reads the lazy static under the secp lock
BlockHeader_add_issue_overage_steps_locked(is_zero) ==
    <<"lock", "zero", "unlock">>

\* BlockHeader::add_issue_overage: the lazy static is read in the condition,
\* the lock is taken in the else branch only
BlockHeader_add_issue_overage_steps(is_zero) ==
    IF is_zero THEN <<"zero">> ELSE <<"zero", "lock", "unlock">>

\* Block::verify_coinbase: the lock is held over commit_value and commit_sum
Block_verify_coinbase_steps == <<"lock", "unlock">>

\* committed::sum_kernel_offsets and TransactionBody::mint_overage take the
\* lock for their sums and drop it before they return
sum_kernel_offsets_steps == <<"lock", "unlock">>
mint_overage_steps == <<"lock", "unlock">>

\* Block::from_reward: the kernel offsets, the mint overage and
\* add_issue_overage when the transactions mint, then Default::default()
\* for the rest of the header
Block_from_reward_steps(mints, is_zero) ==
    sum_kernel_offsets_steps
        \o (IF mints THEN mint_overage_steps \o BlockHeader_add_issue_overage_steps(is_zero)
            ELSE <<>>)
        \o BlockHeader_default_steps

\* Block::validate: the body with the verifier cache, then verify_coinbase
Block_validate_steps ==
    <<"filter_rangeproof", "verify_rangeproof", "filter_kernel", "verify_kernel",
      "add_verified">> \o Block_verify_coinbase_steps \o <<"return">>

\* the calls a thread makes
ThreadCalls ==
    {[op |-> "default", prog |-> BlockHeader_default_steps],
     [op |-> "verify_coinbase", prog |-> Block_verify_coinbase_steps]}
    \cup {[op |-> "add_issue_overage", prog |-> BlockHeader_add_issue_overage_steps(z)] :
            z \in BOOLEAN}
    \cup {[op |-> "from_reward", prog |-> Block_from_reward_steps(m, z)] :
            m \in BOOLEAN, z \in BOOLEAN}

\* the blocks the threads validate: a block built on the default header,
\* the same block with the fee of a kernel changed after it was signed, and
\* the same block with the range proof of an output replaced
ThreadBlocks ==
    LET txs == PickTxs(<<2>>)
        rw == reward_output(RewardKey, TxFees(txs), 1)
        good == Block_from_reward(BlockHeader_default, txs, rw[1], rw[2],
                                  MinDifficulty, Clock0).val
    IN  << good,
           [good EXCEPT !.body.kernels[1].fee = @ + 1],
           [good EXCEPT !.body.outputs[1].proof = <<0, 0, 0, 0>>] >>

\* VerifierCache::filter_rangeproof_unverified that looks the outputs up by
\* their commitment alone
filter_rangeproof_unverified_by_commit(cache, outputs) ==
    SelectSeq(outputs,
              LAMBDA o : \A c \in cache.rangeproofs : c.commit # o.commit)

\* VerifierCache::filter_rangeproof_unverified: the outputs whose proof the
\* cache does not hold
filter_rangeproof_unverified(cache, outputs) ==
    SelectSeq(outputs, LAMBDA o : o \notin cache.rangeproofs)

\* VerifierCache::filter_kernel_sig_unverified
filter_kernel_sig_unverified(cache, kernels) ==
    SelectSeq(kernels, LAMBDA k : k \notin cache.kernel_sigs)

\* VerifierCache::add_rangeproof_verified and add_kernel_sig_verified
add_verified(cache, outputs, kernels) ==
    [rangeproofs |-> cache.rangeproofs \cup Range(outputs),
     kernel_sigs |-> cache.kernel_sigs \cup Range(kernels)]

\* Block::validate after the body: lock heights, coinbase, mint overage and
\* kernel sums
Block_validate_after_body(b, prev_kernel_offset) ==
    LET locks == Block_verify_kernel_lock_heights(b)
        coinbase == Block_verify_coinbase(b)
        mint_overage == Block_mint_overage(b)
        offset == Block_block_kernel_offset(b, prev_kernel_offset)
    IN  IF ~locks.ok THEN locks
        ELSE IF ~coinbase.ok THEN coinbase
        ELSE IF ~mint_overage.ok THEN mint_overage
        ELSE IF ~offset.ok THEN offset
        ELSE LET sums == Block_verify_kernel_sums(b, BlockHeader_overage(b.header),
                                                  mint_overage.val, offset.val)
             IN  IF ~sums.ok THEN FromCommitted(sums)
                 ELSE Ok(sums.val[2])

\* the instruction thread t is at
Instr(t) == threads[t].prog[threads[t].pc]
Running(t) == threads[t].op # "idle"
At(t, name) == Running(t) /\ Instr(t) = name

\* the thread after its instruction: at the next one, or out of the call
Advance(th) ==
    IF th.pc < Len(th.prog) THEN [th EXCEPT !.pc = @ + 1]
    ELSE [th EXCEPT !.op = "idle", !.prog = <<>>, !.pc = 1, !.calls = @ + 1]

\* the thread returns early with a result
ReturnWith(th, r) ==
    [th EXCEPT !.op = "idle", !.prog = <<>>, !.pc = 1, !.calls = @ + 1, !.result = r]

\* the calls made so far
RECURSIVE SumCalls(_)
SumCalls(ts) ==
    IF ts = {} THEN 0
    ELSE LET t == CHOOSE x \in ts : TRUE
         IN  threads[t].calls + SumCalls(ts \ {t})

CallsMade == SumCalls(Threads) + Cardinality({t \in Threads : Running(t)})

seqVars == <<prev, block, orig, op, res, resOrig, tampered, compact, picked, ledger,
             wire, sent, now, rd>>

\* thread t calls an operation of the module
Call(t, c) ==
    /\ ~Running(t)
    /\ CallsMade < MaxCalls
    /\ threads' = [threads EXCEPT ![t] =
            [IdleThread EXCEPT !.op = c.op, !.prog = c.prog, !.calls = threads[t].calls]]
    /\ UNCHANGED <<secp_lock, zero_once, verifier_cache>>
    /\ UNCHANGED seqVars

\* thread t calls Block::validate on a block with the previous kernel
\* offset of the default header
CallValidate(t, i) ==
    /\ ~Running(t)
    /\ CallsMade < MaxCalls
    /\ threads' = [threads EXCEPT ![t] =
            [IdleThread EXCEPT !.op = "validate", !.prog = Block_validate_steps,
                               !.blk = i, !.calls = threads[t].calls]]
    /\ UNCHANGED <<secp_lock, zero_once, verifier_cache>>
    /\ UNCHANGED seqVars

\* *ZERO_OVERAGE_COMMITMENT: the value when the Once is complete; the first
\* thread runs the initializer; the others wait for it
DerefZero(t) ==
    /\ At(t, "zero")
    /\ \/ /\ zero_once.state = "done"
          /\ threads' = [threads EXCEPT ![t] = Advance(@)]
          /\ UNCHANGED zero_once
       \/ /\ zero_once.state = "uninit"
          /\ zero_once' = [state |-> "running", by |-> t]
          /\ threads' = [threads EXCEPT ![t].prog =
                SubSeq(@, 1, threads[t].pc - 1) \o ZERO_OVERAGE_COMMITMENT_init
                    \o SubSeq(@, threads[t].pc, Len(@))]
    /\ UNCHANGED <<secp_lock, verifier_cache>>
    /\ UNCHANGED seqVars

\* the initializer is over: the Once is complete
OnceDone(t) ==
    /\ At(t, "once_done")
    /\ zero_once' = [state |-> "done", by |-> t]
    /\ threads' = [threads EXCEPT ![t] = Advance(@)]
    /\ UNCHANGED <<secp_lock, verifier_cache>>
    /\ UNCHANGED seqVars

\* secp.lock(): the thread waits while the lock is held, by itself as well
LockSecp(t) ==
    /\ At(t, "lock")
    /\ secp_lock = "free"
    /\ secp_lock' = t
    /\ threads' = [threads EXCEPT ![t] = Advance(@)]
    /\ UNCHANGED <<zero_once, verifier_cache>>
    /\ UNCHANGED seqVars

\* the guard is dropped
UnlockSecp(t) ==
    /\ At(t, "unlock")
    /\ secp_lock' = "free"
    /\ threads' = [threads EXCEPT ![t] = Advance(@)]
    /\ UNCHANGED <<zero_once, verifier_cache>>
    /\ UNCHANGED seqVars

\* TransactionBody::validate: read validation, then the outputs whose range
\* proof the cache does not hold, taken under the cache's write lock
FilterRangeproofs(t) ==
    /\ At(t, "filter_rangeproof")
    /\ \E r \in {TransactionBody_validate_read(ThreadBlocks[threads[t].blk].body)} :
        threads' = [threads EXCEPT ![t] =
            IF ~r.ok THEN ReturnWith(@, FromTransaction(r))
            ELSE Advance([@ EXCEPT !.outputs =
                    filter_rangeproof_unverified(verifier_cache,
                        ThreadBlocks[threads[t].blk].body.outputs)])]
    /\ UNCHANGED <<secp_lock, zero_once, verifier_cache>>
    /\ UNCHANGED seqVars

\* the range proofs of those outputs are verified
VerifyRangeproofs(t) ==
    /\ At(t, "verify_rangeproof")
    /\ threads' = [threads EXCEPT ![t] =
            IF \E i \in DOMAIN @.outputs : ~Output_verify_proof(@.outputs[i])
            THEN ReturnWith(@, Err(<<"Transaction", "Secp", "InvalidRangeProof">>, 0))
            ELSE Advance(@)]
    /\ UNCHANGED <<secp_lock, zero_once, verifier_cache>>
    /\ UNCHANGED seqVars

\* the kernels whose signature the cache does not hold
FilterKernels(t) ==
    /\ At(t, "filter_kernel")
    /\ threads' = [threads EXCEPT ![t] =
            Advance([@ EXCEPT !.kernels =
                filter_kernel_sig_unverified(verifier_cache,
                    ThreadBlocks[threads[t].blk].body.kernels)])]
    /\ UNCHANGED <<secp_lock, zero_once, verifier_cache>>
    /\ UNCHANGED seqVars

\* the signatures of those kernels and of the asset actions are verified
VerifyKernels(t) ==
    /\ At(t, "verify_kernel")
    /\ threads' = [threads EXCEPT ![t] =
            IF \/ \E i \in DOMAIN @.kernels : ~Kernel_verify(@.kernels[i])
               \/ \E i \in DOMAIN ThreadBlocks[@.blk].body.assets :
                    ~AssetAction_validate(ThreadBlocks[@.blk].body.assets[i])
            THEN ReturnWith(@, Err(<<"Transaction", "IncorrectSignature">>, 0))
            ELSE Advance(@)]
    /\ UNCHANGED <<secp_lock, zero_once, verifier_cache>>
    /\ UNCHANGED seqVars

\* the verified outputs and kernels go into the cache, under its write lock
AddVerified(t) ==
    /\ At(t, "add_verified")
    /\ verifier_cache' = add_verified(verifier_cache, threads[t].outputs, threads[t].kernels)
    /\ threads' = [threads EXCEPT ![t] = Advance(@)]
    /\ UNCHANGED <<secp_lock, zero_once>>
    /\ UNCHANGED seqVars

\* the checks after the body give the result of validate
ReturnValidate(t) ==
    /\ At(t, "return")
    /\ threads' = [threads EXCEPT ![t] =
            ReturnWith(@, Block_validate_after_body(ThreadBlocks[@.blk],
                                                    BlockHeader_default.total_kernel_offset))]
    /\ UNCHANGED <<secp_lock, zero_once, verifier_cache>>
    /\ UNCHANGED seqVars

\* one instruction of thread t
ThreadStep(t) ==
    \/ DerefZero(t)
    \/ OnceDone(t)
    \/ LockSecp(t)
    \/ UnlockSecp(t)
    \/ FilterRangeproofs(t)
    \/ VerifyRangeproofs(t)
    \/ FilterKernels(t)
    \/ VerifyKernels(t)
    \/ AddVerified(t)
    \/ ReturnValidate(t)

\* the threads build blocks and check coinbases
NextLock ==
    \/ \E t \in Threads, c \in ThreadCalls : Call(t, c)
    \/ \E t \in Threads : DerefZero(t)
    \/ \E t \in Threads : OnceDone(t)
    \/ \E t \in Threads : LockSecp(t)
    \/ \E t \in Threads : UnlockSecp(t)

SpecLock == Init /\ [][NextLock]_vars

\* every thread that can take a step eventually takes one
SpecLockFair == SpecLock /\ \A t \in Threads : WF_vars(ThreadStep(t))

\* the threads validate blocks with the shared cache
NextCache ==
    \/ \E t \in Threads, i \in DOMAIN ThreadBlocks : CallValidate(t, i)
    \/ \E t \in Threads : FilterRangeproofs(t)
    \/ \E t \in Threads : VerifyRangeproofs(t)
    \/ \E t \in Threads : FilterKernels(t)
    \/ \E t \in Threads : VerifyKernels(t)
    \/ \E t \in Threads : AddVerified(t)
    \/ \E t \in Threads : LockSecp(t)
    \/ \E t \in Threads : UnlockSecp(t)
    \/ \E t \in Threads : ReturnValidate(t)

SpecCache == Init /\ [][NextCache]_vars

----------------------------------------------------------------------------
(* Properties of the threads                                               *)

\* thread t waits for the secp lock or for the initializer of the lazy static
Waiting(t) ==
    \/ At(t, "lock") /\ secp_lock # "free"
    \/ At(t, "zero") /\ zero_once.state = "running"

\* thread t finished a validate call
Validated(t) == ~Running(t) /\ threads[t].blk # 0 /\ threads[t].result # NoRes

\* C23: the result of every finished validate call is the result of
\* validation without any cache, whatever the cache held and whatever the
\* other threads did meanwhile; the cache never holds an output whose range
\* proof is invalid or a kernel whose signature is invalid
C23_CacheTransparent ==
    /\ \A t \in Threads :
        Validated(t) =>
            threads[t].result = Block_validate(ThreadBlocks[threads[t].blk],
                                               BlockHeader_default.total_kernel_offset)
    /\ \A o \in verifier_cache.rangeproofs : Output_verify_proof(o)
    /\ \A k \in verifier_cache.kernel_sigs : Kernel_verify(k)

\* a block with a broken kernel signature was refused by a call that found
\* every range proof of the block in the cache
C23_Witness ==
    \E t \in Threads :
        /\ Validated(t)
        /\ threads[t].blk = 2
        /\ threads[t].outputs = <<>>
        /\ threads[t].result = Err(<<"Transaction", "IncorrectSignature">>, 0)

\* a valid block was accepted by a call that verified nothing itself
C23_WitnessHit ==
    \E t \in Threads :
        /\ Validated(t)
        /\ threads[t].outputs = <<>>
        /\ threads[t].kernels = <<>>
        /\ threads[t].result.ok

\* a block with a broken range proof was refused while the cache held the
\* proofs of its other outputs
C23_WitnessProof ==
    \E t \in Threads :
        /\ Validated(t)
        /\ threads[t].blk = 3
        /\ Len(threads[t].outputs) = 1
        /\ ~threads[t].result.ok

\* C30: no thread is about to take the secp lock while it holds it; while a
\* call is running some thread can take a step; all calls return
C30_SecpLock ==
    /\ [](\A t \in Threads : At(t, "lock") => secp_lock # t)
    /\ []((\E t \in Threads : Running(t)) => (\E t \in Threads : Running(t) /\ ~Waiting(t)))
    /\ []<>(\A t \in Threads : ~Running(t))

\* the first user of the lazy static holds the secp lock in the initializer
\* while another thread waits for the lock
C30_Witness ==
    /\ zero_once.state = "running"
    /\ secp_lock = zero_once.by
    /\ \E u \in Threads : u # zero_once.by /\ At(u, "lock")

\* a thread waits for the initializer that another thread runs
C30_WitnessOnce ==
    /\ zero_once.state = "running"
    /\ \E u \in Threads : u # zero_once.by /\ At(u, "zero")

====
